---- MODULE Spec2Model ----
(***************************************************************************)
(* A model of the MC68000 core of go-chip-m68k: the register file, the     *)
(* bus access layer with its address-error halt, the exception and         *)
(* interrupt engine, the step loop with its cycle budget, and the          *)
(* instruction handlers the verified properties exercise.                  *)
(*                                                                         *)
(* A uint32 is the pair <<hi, lo>> of its 16-bit halves (TLC's integers    *)
(* are 32-bit signed); a uint16 or uint8 is an integer.  Every operator    *)
(* that models a method of CPU takes a machine record m (the CPU fields    *)
(* m.c, the bus memory m.mem, the log of bus requests m.tr, the value the  *)
(* last read returned m.v) and yields the machine after the call.          *)
(***************************************************************************)
EXTENDS Integers, Sequences, FiniteSets, TLC

\* ------------------------------------------------------------- bounds
MaxCycles == 40     \* Step/AddCycles are offered while cycles < MaxCycles
MaxLevel == 8       \* the highest level handed to RequestInterrupt
MaxBudget == 20     \* the StepCycles budget offered
SmallBudget == 3      \* a budget below the cost of every instruction
HoldCycles == 30    \* the bus-hold period handed to AddCycles

\* ---------------------------------------------------------- constants
W8 == 256
W16 == 65536

Byte == 1
Word == 2
Long == 4

flagC == 1
flagV == 2
flagZ == 4
flagN == 8
flagX == 16
flagS == 8192
flagT == 32768
SRMask == 42783             \* 0xA71F

vecIllegalInstruction == 4
vecPrivilegeViolation == 8
vecLineA == 10
vecLineF == 11
vecUninitialized == 15
vecSpuriousInterrupt == 24
vecTrap0 == 32

eaDataReg == 0
eaAddrReg == 1
eaMemory == 2
eaImmediate == 3

NoVec == -1                 \* pendingVec == nil
cpuSerializeVersion == 1
cpuSerializeSize == 104

\* --------------------------------------------------------- sequencing
\* Bind(v, K) is K applied to the value of v: the statement "x := v" followed
\* by the statements K(x).  v is evaluated once.
Bind(v, K(_)) == CHOOSE r \in {K(x) : x \in {v}} : TRUE

\* ------------------------------------------------------ bit arithmetic
RECURSIVE AndBits(_, _)
AndBits(x, y) ==
  IF x = 0 \/ y = 0 THEN 0
  ELSE (x % 2) * (y % 2) + 2 * AndBits(x \div 2, y \div 2)

BitAnd(x, y) == Bind(x, LAMBDA a : Bind(y, LAMBDA b : AndBits(a, b)))              \* x & y
BitOr(x, y) == Bind(x, LAMBDA a : Bind(y, LAMBDA b : a + b - AndBits(a, b)))       \* x | y
BitXor(x, y) == Bind(x, LAMBDA a : Bind(y, LAMBDA b : a + b - 2 * AndBits(a, b)))  \* x ^ y
BitClear(x, y) == Bind(x, LAMBDA a : Bind(y, LAMBDA b : a - AndBits(a, b)))        \* x &^ y

\* uint32 values as <<hi, lo>>
U32(n) == <<n \div W16, n % W16>>           \* 0 <= n < 2^31
Zero32 == <<0, 0>>
Add32(v, n) ==                              \* v + n (mod 2^32), n a small signed integer
  LET s == v[2] + n IN <<(v[1] + (s \div W16)) % W16, s % W16>>
AddU32(a, b) ==                             \* a + b (mod 2^32)
  LET s == a[2] + b[2] IN <<(a[1] + b[1] + (s \div W16)) % W16, s % W16>>
Or32(a, b) == <<BitOr(a[1], b[1]), BitOr(a[2], b[2])>>
And32(a, b) == <<BitAnd(a[1], b[1]), BitAnd(a[2], b[2])>>
Xor32(a, b) == <<BitXor(a[1], b[1]), BitXor(a[2], b[2])>>
AndNot32(a, b) == <<BitClear(a[1], b[1]), BitClear(a[2], b[2])>>   \* a &^ b
IsOdd(v) == v[2] % 2 = 1
Addr24_NoMask(v) == v[1] * W16 + v[2]
Addr24(v) == (v[1] % W8) * W16 + v[2]        \* addr & 0xFFFFFF
SignExt16(w) == <<IF w >= 32768 THEN 65535 ELSE 0, w>>   \* uint32(int32(int16(w)))
Int16(w) == IF w >= 32768 THEN w - W16 ELSE w
Int8(b) == IF b >= 128 THEN b - W8 ELSE b

\* Size.Mask applied to a uint32
MaskSz(sz, v) ==
  CASE sz = Byte -> <<0, v[2] % W8>>
    [] sz = Word -> <<0, v[2]>>
    [] sz = Long -> v
    [] OTHER -> Zero32

\* val & sz.MSB() != 0
MsbSet(sz, v) ==
  CASE sz = Byte -> (v[2] % W8) >= 128
    [] sz = Word -> v[2] >= 32768
    [] sz = Long -> v[1] >= 32768
    [] OTHER -> FALSE

\* --------------------------------------------------------------- bus
\* The bus is a flat big-endian byte memory; bytes never written read 0.
MemByte(mem, a) == IF a \in DOMAIN mem THEN mem[a] ELSE 0

BusRead(mem, sz, a) ==
  CASE sz = Byte -> <<0, MemByte(mem, a)>>
    [] sz = Word -> <<0, MemByte(mem, a) * W8 + MemByte(mem, a + 1)>>
    [] sz = Long -> <<MemByte(mem, a) * W8 + MemByte(mem, a + 1),
                      MemByte(mem, a + 2) * W8 + MemByte(mem, a + 3)>>
    [] OTHER -> Zero32

BusWrite(mem, sz, a, v) ==
  CASE sz = Byte -> (a :> (v[2] % W8)) @@ mem
    [] sz = Word -> (a :> (v[2] \div W8)) @@ ((a + 1) :> (v[2] % W8)) @@ mem
    [] sz = Long -> (a :> (v[1] \div W8)) @@ ((a + 1) :> (v[1] % W8)) @@
                    ((a + 2) :> (v[2] \div W8)) @@ ((a + 3) :> (v[2] % W8)) @@ mem
    [] OTHER -> mem

\* One entry of the request log: a call of readBus or writeBus.
\*   addr   the address as the caller passed it (uint32)
\*   hb     c.halted when the call was made
\*   ha     c.halted when the call returned
\*   issued whether the call reached Bus.Read/Write (ReadCycle/WriteCycle)
\*   bus    the address handed to the bus (-1 when none)
\*   cyc    the cycle stamp handed to a CycleBus
\*   val    the value returned (read) or handed to the bus (write)
Req(rw, sz, addr, hb, ha, issued, bus, cyc, val) ==
  [rw |-> rw, sz |-> sz, addr |-> addr, hb |-> hb, ha |-> ha, issued |-> issued,
   bus |-> bus, cyc |-> cyc, val |-> val]

\* The calls as they end: refused (no bus access), read, written.
Refused(m, rw, sz, addr, hb, val) ==
  [m EXCEPT !.tr = Append(@, Req(rw, sz, addr, hb, TRUE, FALSE, -1, m.c.cycles, val))]
Read(m, sz, addr, val) ==
  [m EXCEPT !.v = val,
            !.tr = Append(@, Req("R", sz, addr, FALSE, FALSE, TRUE, Addr24(addr), m.c.cycles, val))]
Written(m, sz, addr, val) ==
  [m EXCEPT !.mem = BusWrite(@, sz, Addr24(addr), val),
            !.tr = Append(@, Req("W", sz, addr, FALSE, FALSE, TRUE, Addr24(addr), m.c.cycles, val))]

readBus_NoOddCheck(m, sz, addr) ==
  IF m.c.halted
    THEN Refused([m EXCEPT !.v = Zero32], "R", sz, addr, TRUE, Zero32)
    ELSE Read(m, sz, addr, BusRead(m.mem, sz, Addr24(addr)))

readBus_NoHaltedGuard(m, sz, addr) ==
  IF sz # Byte /\ IsOdd(addr)
    THEN Refused([m EXCEPT !.c.halted = TRUE, !.v = Zero32], "R", sz, addr, m.c.halted, Zero32)
    ELSE [Read(m, sz, addr, BusRead(m.mem, sz, Addr24(addr))) EXCEPT
            !.tr[Len(m.tr) + 1].hb = m.c.halted, !.tr[Len(m.tr) + 1].ha = m.c.halted]

readBus(m, sz, addr) ==
  IF m.c.halted
    THEN Refused([m EXCEPT !.v = Zero32], "R", sz, addr, TRUE, Zero32)
  ELSE IF sz # Byte /\ IsOdd(addr)
    THEN Refused([m EXCEPT !.c.halted = TRUE, !.v = Zero32], "R", sz, addr, FALSE, Zero32)
  ELSE Read(m, sz, addr, BusRead(m.mem, sz, Addr24(addr)))

writeBus_NoOddCheck(m, sz, addr, val) ==
  IF m.c.halted
    THEN Refused(m, "W", sz, addr, TRUE, MaskSz(sz, val))
    ELSE Written(m, sz, addr, MaskSz(sz, val))

writeBus(m, sz, addr, val) ==
  IF m.c.halted
    THEN Refused(m, "W", sz, addr, TRUE, MaskSz(sz, val))
  ELSE IF sz # Byte /\ IsOdd(addr)
    THEN Refused([m EXCEPT !.c.halted = TRUE], "W", sz, addr, FALSE, MaskSz(sz, val))
  ELSE Written(m, sz, addr, MaskSz(sz, val))

fetchPC(m) ==
  Bind(readBus(m, Word, m.c.PC), LAMBDA m1 :
    [m1 EXCEPT !.c.PC = Add32(@, 2), !.v = <<0, m1.v[2]>>])

fetchPCLong(m) ==
  Bind(fetchPC(m), LAMBDA m1 :
  Bind(fetchPC(m1), LAMBDA m2 :
    [m2 EXCEPT !.v = <<m1.v[2], m2.v[2]>>]))

pushWord(m, val) ==
  Bind([m EXCEPT !.c.A[7] = Add32(@, -2)], LAMBDA m1 :
    writeBus(m1, Word, m1.c.A[7], <<0, val>>))

pushLong(m, val) ==
  Bind([m EXCEPT !.c.A[7] = Add32(@, -4)], LAMBDA m1 :
    writeBus(m1, Long, m1.c.A[7], val))

popWord(m) ==
  Bind(readBus(m, Word, m.c.A[7]), LAMBDA m1 :
    [m1 EXCEPT !.c.A[7] = Add32(@, 2), !.v = <<0, m1.v[2]>>])

popLong(m) ==
  Bind(readBus(m, Long, m.c.A[7]), LAMBDA m1 :
    [m1 EXCEPT !.c.A[7] = Add32(@, 4)])

supervisor(m) == BitAnd(m.c.SR, flagS) # 0

addCycles(m, n) == [m EXCEPT !.c.cycles = @ + n]

\* ------------------------------------------------- status register
\* The stack-pointer fields an SR write can swap, for the SR-write log m.sw.
SPView(c) == [SR |-> c.SR, A7 |-> c.A[7], USP |-> c.USP, SSP |-> c.SSP]

\* SwapLog(m0, m) is m with one more entry in the SR-write log: the stack
\* pointers before (those of m0) and after (those of m) the write.
SwapLog(m0, m) == [m EXCEPT !.sw = Append(@, [b |-> SPView(m0.c), a |-> SPView(m.c)])]

setSR_NoSwap(m, sr) ==
  Bind([m EXCEPT !.c.SR = BitAnd(sr, SRMask)], LAMBDA m1 : SwapLog(m, m1))

setSR(m, sr) ==
  Bind(BitAnd(m.c.SR, flagS), LAMBDA oldS :
  Bind(BitAnd(sr, flagS), LAMBDA newS :
  Bind(IF oldS # 0 /\ newS = 0
         THEN [m EXCEPT !.c.SSP = m.c.A[7], !.c.A[7] = m.c.USP]
       ELSE IF oldS = 0 /\ newS # 0
         THEN [m EXCEPT !.c.USP = m.c.A[7], !.c.A[7] = m.c.SSP]
       ELSE m, LAMBDA m1 :
  Bind([m1 EXCEPT !.c.SR = BitAnd(sr, SRMask)], LAMBDA m2 : SwapLog(m, m2)))))

setCCR(m, ccr) ==
  [m EXCEPT !.c.SR = BitOr(BitAnd(@, 65280), BitAnd(ccr, 31))]

setFlagsLogical(m, result, sz) ==
  Bind(BitClear(m.c.SR, flagN + flagZ + flagV + flagC), LAMBDA sr0 :
  Bind(IF MaskSz(sz, result) = Zero32 THEN BitOr(sr0, flagZ) ELSE sr0, LAMBDA sr1 :
  Bind(IF MsbSet(sz, result) THEN BitOr(sr1, flagN) ELSE sr1, LAMBDA sr2 :
    [m EXCEPT !.c.SR = sr2])))

\* result & (msb << 1) != 0; for Long the shift leaves no bit.
CarryBit(sz, result) ==
  CASE sz = Byte -> (result[2] \div W8) % 2 = 1
    [] sz = Word -> result[1] % 2 = 1
    [] OTHER -> FALSE

setFlagsAdd(m, src, dst, result, sz) ==
  Bind(MaskSz(sz, result), LAMBDA r :
  Bind(MaskSz(sz, src), LAMBDA s :
  Bind(MaskSz(sz, dst), LAMBDA d :
  Bind(BitClear(m.c.SR, flagX + flagN + flagZ + flagV + flagC), LAMBDA sr0 :
  Bind(IF r = Zero32 THEN BitOr(sr0, flagZ) ELSE sr0, LAMBDA sr1 :
  Bind(IF MsbSet(sz, r) THEN BitOr(sr1, flagN) ELSE sr1, LAMBDA sr2 :
  Bind(IF MsbSet(sz, And32(Xor32(s, r), Xor32(d, r))) THEN BitOr(sr2, flagV) ELSE sr2, LAMBDA sr3 :
  Bind(IF CarryBit(sz, result)
          \/ (sz = Long /\ MsbSet(sz, Or32(And32(s, d), AndNot32(Or32(s, d), r))))
         THEN BitOr(sr3, flagC + flagX) ELSE sr3, LAMBDA sr4 :
    [m EXCEPT !.c.SR = sr4]))))))))

\* testCondition(cc): an MC68000 condition code (0-15) evaluated on SR.
testCondition_GTIgnoresZ(m, cc) ==
  Bind(m.c.SR, LAMBDA sr :
  Bind(BitAnd(sr, flagN) # 0, LAMBDA n :
  Bind(BitAnd(sr, flagV) # 0, LAMBDA v :
  Bind(BitAnd(sr, flagZ) # 0, LAMBDA z :
    CASE cc = 0 -> TRUE
      [] cc = 1 -> FALSE
      [] cc = 2 -> BitAnd(sr, flagC + flagZ) = 0
      [] cc = 3 -> BitAnd(sr, flagC + flagZ) # 0
      [] cc = 4 -> BitAnd(sr, flagC) = 0
      [] cc = 5 -> BitAnd(sr, flagC) # 0
      [] cc = 6 -> BitAnd(sr, flagZ) = 0
      [] cc = 7 -> BitAnd(sr, flagZ) # 0
      [] cc = 8 -> BitAnd(sr, flagV) = 0
      [] cc = 9 -> BitAnd(sr, flagV) # 0
      [] cc = 10 -> BitAnd(sr, flagN) = 0
      [] cc = 11 -> BitAnd(sr, flagN) # 0
      [] cc = 12 -> n = v
      [] cc = 13 -> n # v
      [] cc = 14 -> n = v
      [] cc = 15 -> z \/ n # v
      [] OTHER -> FALSE))))

testCondition(m, cc) ==
  Bind(m.c.SR, LAMBDA sr :
  Bind(BitAnd(sr, flagN) # 0, LAMBDA n :
  Bind(BitAnd(sr, flagV) # 0, LAMBDA v :
  Bind(BitAnd(sr, flagZ) # 0, LAMBDA z :
    CASE cc = 0 -> TRUE
      [] cc = 1 -> FALSE
      [] cc = 2 -> BitAnd(sr, flagC + flagZ) = 0
      [] cc = 3 -> BitAnd(sr, flagC + flagZ) # 0
      [] cc = 4 -> BitAnd(sr, flagC) = 0
      [] cc = 5 -> BitAnd(sr, flagC) # 0
      [] cc = 6 -> BitAnd(sr, flagZ) = 0
      [] cc = 7 -> BitAnd(sr, flagZ) # 0
      [] cc = 8 -> BitAnd(sr, flagV) = 0
      [] cc = 9 -> BitAnd(sr, flagV) # 0
      [] cc = 10 -> BitAnd(sr, flagN) = 0
      [] cc = 11 -> BitAnd(sr, flagN) # 0
      [] cc = 12 -> n = v
      [] cc = 13 -> n # v
      [] cc = 14 -> n = v /\ ~z
      [] cc = 15 -> z \/ n # v
      [] OTHER -> FALSE))))

\* ------------------------------------------------------- exceptions
\* Vectors whose stacked PC is the address of the faulting instruction.
FaultVectors == {vecIllegalInstruction, vecPrivilegeViolation, vecLineA, vecLineF}

\* Whether one of the requests of log after its first n reached the bus as a write.
WroteAfter(log, n) == \E i \in (n + 1)..Len(log) : log[i].rw = "W" /\ log[i].issued

NoExc == [on |-> FALSE]

\* The record of one run of exception: the CPU before (pre) and after (post),
\* the vector, what the bus memory then holds at the stack frame (frameSR at
\* A7, framePC at A7+2), at the vector's table entry and at the
\* uninitialized-interrupt entry, and whether the run wrote to the bus.
Raised(m0, m, vector) ==
  [on |-> TRUE, pre |-> m0.c, post |-> m.c, vector |-> vector,
   frameSR |-> BusRead(m.mem, Word, Addr24(m.c.A[7])),
   framePC |-> BusRead(m.mem, Long, Addr24(Add32(m.c.A[7], 2))),
   entry |-> BusRead(m.mem, Long, vector * 4),
   uninit |-> BusRead(m.mem, Long, vecUninitialized * 4),
   wrote |-> WroteAfter(m.tr, Len(m0.tr))]

exception_NoFallback(m, vector) ==
  Bind(IF vector \in FaultVectors THEN m.c.prevPC ELSE m.c.PC, LAMBDA pushPC :
  Bind(IF BitAnd(m.c.SR, flagS) = 0
         THEN [m EXCEPT !.c.USP = m.c.A[7], !.c.A[7] = m.c.SSP]
         ELSE m, LAMBDA m1 :
  Bind([m1 EXCEPT !.c.SR = BitClear(BitOr(@, flagS), flagT)], LAMBDA m2 :
  Bind(pushLong(SwapLog(m, m2), pushPC), LAMBDA m3 :
  Bind(pushWord(m3, m.c.SR), LAMBDA m4 :
  Bind(readBus(m4, Long, U32(vector * 4)), LAMBDA m5 :
  Bind([m5 EXCEPT !.c.PC = m5.v, !.c.cycles = @ + 34], LAMBDA m7 :
    [m7 EXCEPT !.exc = Raised(m, m7, vector)])))))))

exception_PushesCurrentPC(m, vector) ==
  Bind(IF BitAnd(m.c.SR, flagS) = 0
         THEN [m EXCEPT !.c.USP = m.c.A[7], !.c.A[7] = m.c.SSP]
         ELSE m, LAMBDA m1 :
  Bind([m1 EXCEPT !.c.SR = BitClear(BitOr(@, flagS), flagT)], LAMBDA m2 :
  Bind(pushLong(SwapLog(m, m2), m.c.PC), LAMBDA m3 :
  Bind(pushWord(m3, m.c.SR), LAMBDA m4 :
  Bind(readBus(m4, Long, U32(vector * 4)), LAMBDA m5 :
  Bind(IF m5.v = Zero32 THEN readBus(m5, Long, U32(vecUninitialized * 4)) ELSE m5, LAMBDA m6 :
  Bind(IF m6.v = Zero32
         THEN [m6 EXCEPT !.c.halted = TRUE]
         ELSE [m6 EXCEPT !.c.PC = m6.v, !.c.cycles = @ + 34], LAMBDA m7 :
    [m7 EXCEPT !.exc = Raised(m, m7, vector)])))))))

exception(m, vector) ==
  Bind(IF vector \in FaultVectors THEN m.c.prevPC ELSE m.c.PC, LAMBDA pushPC :
  Bind(IF BitAnd(m.c.SR, flagS) = 0
         THEN [m EXCEPT !.c.USP = m.c.A[7], !.c.A[7] = m.c.SSP]
         ELSE m, LAMBDA m1 :
  Bind([m1 EXCEPT !.c.SR = BitClear(BitOr(@, flagS), flagT)], LAMBDA m2 :
  Bind(pushLong(SwapLog(m, m2), pushPC), LAMBDA m3 :
  Bind(pushWord(m3, m.c.SR), LAMBDA m4 :
  Bind(readBus(m4, Long, U32(vector * 4)), LAMBDA m5 :
  Bind(IF m5.v = Zero32 THEN readBus(m5, Long, U32(vecUninitialized * 4)) ELSE m5, LAMBDA m6 :
  Bind(IF m6.v = Zero32
         THEN [m6 EXCEPT !.c.halted = TRUE]
         ELSE [m6 EXCEPT !.c.PC = m6.v, !.c.cycles = @ + 34], LAMBDA m7 :
    [m7 EXCEPT !.exc = Raised(m, m7, vector)]))))))))

\* ------------------------------------------------------- interrupts
NoSvc == [on |-> FALSE]

\* The record of an interrupt service: the CPU before (pre) and after (post),
\* the vector number used, and what the bus memory then holds at the stack
\* frame (frameSR at A7, framePC at A7+2), at the vector's table entry and at
\* the spurious-interrupt and uninitialized-interrupt entries, the number of
\* bus requests made so far (nreq) and whether the service wrote to the bus.
Service(m0, m, vectorNum) ==
  [on |-> TRUE, pre |-> m0.c, post |-> m.c, vectorNum |-> vectorNum,
   frameSR |-> BusRead(m.mem, Word, Addr24(m.c.A[7])),
   framePC |-> BusRead(m.mem, Long, Addr24(Add32(m.c.A[7], 2))),
   entry |-> BusRead(m.mem, Long, vectorNum * 4),
   spurious |-> BusRead(m.mem, Long, vecSpuriousInterrupt * 4),
   uninit |-> BusRead(m.mem, Long, vecUninitialized * 4),
   nreq |-> Len(m.tr),
   wrote |-> WroteAfter(m.tr, Len(m0.tr))]

\* The SR an interrupt of the given level is entered with.
InterruptSR_KeepMask(sr, level) == BitClear(BitOr(sr, flagS), flagT)

InterruptSR(sr, level) ==
  BitOr(BitAnd(BitClear(BitOr(sr, flagS), flagT), 63743), (level * W8) % W16)

processInterrupt_NoFallback(m) ==
  Bind(m.c.pendingIPL, LAMBDA level :
  Bind(m.c.pendingVec, LAMBDA vec :
  Bind([m EXCEPT !.c.pendingIPL = 0, !.c.pendingVec = NoVec], LAMBDA m0 :
  Bind(IF BitAnd(m0.c.SR, flagS) = 0
         THEN [m0 EXCEPT !.c.USP = m0.c.A[7], !.c.A[7] = m0.c.SSP]
         ELSE m0, LAMBDA m1 :
  Bind([m1 EXCEPT !.c.SR = InterruptSR(@, level)], LAMBDA m3 :
  Bind(pushLong(SwapLog(m, m3), m3.c.PC), LAMBDA m4 :
  Bind(pushWord(m4, m.c.SR), LAMBDA m5 :
  Bind(IF vec # NoVec THEN vec ELSE (24 + level) % W8, LAMBDA vectorNum :
  Bind(readBus(m5, Long, U32(vectorNum * 4)), LAMBDA m6 :
  Bind([m6 EXCEPT !.c.PC = m6.v, !.c.stopped = FALSE, !.c.cycles = @ + 44], LAMBDA m8 :
    [m8 EXCEPT !.svc = Service(m, m8, vectorNum)]))))))))))

processInterrupt_ChargesFirst(m) ==
  Bind(m.c.pendingIPL, LAMBDA level :
  Bind(m.c.pendingVec, LAMBDA vec :
  Bind([m EXCEPT !.c.pendingIPL = 0, !.c.pendingVec = NoVec, !.c.cycles = @ + 44], LAMBDA m0 :
  Bind(IF BitAnd(m0.c.SR, flagS) = 0
         THEN [m0 EXCEPT !.c.USP = m0.c.A[7], !.c.A[7] = m0.c.SSP]
         ELSE m0, LAMBDA m1 :
  Bind([m1 EXCEPT !.c.SR = InterruptSR(@, level)], LAMBDA m3 :
  Bind(pushLong(SwapLog(m, m3), m3.c.PC), LAMBDA m4 :
  Bind(pushWord(m4, m.c.SR), LAMBDA m5 :
  Bind(IF vec # NoVec THEN vec ELSE (24 + level) % W8, LAMBDA vectorNum :
  Bind(readBus(m5, Long, U32(vectorNum * 4)), LAMBDA m6 :
  Bind(IF m6.v = Zero32 THEN readBus(m6, Long, U32(vecSpuriousInterrupt * 4)) ELSE m6, LAMBDA m7 :
  Bind([m7 EXCEPT !.c.PC = m7.v, !.c.stopped = FALSE], LAMBDA m8 :
    [m8 EXCEPT !.svc = Service(m, m8, vectorNum)])))))))))))

processInterrupt(m) ==
  Bind(m.c.pendingIPL, LAMBDA level :
  Bind(m.c.pendingVec, LAMBDA vec :
  Bind([m EXCEPT !.c.pendingIPL = 0, !.c.pendingVec = NoVec], LAMBDA m0 :
  Bind(IF BitAnd(m0.c.SR, flagS) = 0
         THEN [m0 EXCEPT !.c.USP = m0.c.A[7], !.c.A[7] = m0.c.SSP]
         ELSE m0, LAMBDA m1 :
  Bind([m1 EXCEPT !.c.SR = InterruptSR(@, level)], LAMBDA m3 :
  Bind(pushLong(SwapLog(m, m3), m3.c.PC), LAMBDA m4 :
  Bind(pushWord(m4, m.c.SR), LAMBDA m5 :
  Bind(IF vec # NoVec THEN vec ELSE (24 + level) % W8, LAMBDA vectorNum :
  Bind(readBus(m5, Long, U32(vectorNum * 4)), LAMBDA m6 :
  Bind(IF m6.v = Zero32 THEN readBus(m6, Long, U32(vecSpuriousInterrupt * 4)) ELSE m6, LAMBDA m7 :
  Bind([m7 EXCEPT !.c.PC = m7.v, !.c.stopped = FALSE, !.c.cycles = @ + 44], LAMBDA m8 :
    [m8 EXCEPT !.svc = Service(m, m8, vectorNum)])))))))))))

checkInterrupt_MaskGE(m) ==
  IF m.c.pendingIPL = 0 THEN m
  ELSE IF m.c.pendingIPL >= (m.c.SR \div W8) % 8 \/ m.c.pendingIPL = 7
    THEN processInterrupt(m) ELSE m

checkInterrupt_DropBlocked(m) ==
  IF m.c.pendingIPL = 0 THEN m
  ELSE IF m.c.pendingIPL > (m.c.SR \div W8) % 8 \/ m.c.pendingIPL = 7
    THEN processInterrupt(m)
    ELSE [m EXCEPT !.c.pendingIPL = 0, !.c.pendingVec = NoVec]

checkInterrupt_NoMask(m) ==
  IF m.c.pendingIPL = 0 THEN m ELSE processInterrupt(m)

checkInterrupt(m) ==
  IF m.c.pendingIPL = 0 THEN m
  ELSE IF m.c.pendingIPL > (m.c.SR \div W8) % 8 \/ m.c.pendingIPL = 7
    THEN processInterrupt(m) ELSE m

\* ------------------------------------------------ effective addresses
EA(mode, reg, addr, imm) == [mode |-> mode, reg |-> reg, addr |-> addr, imm |-> imm]

calcIndex(m, base, ext) ==
  Bind(IF ext >= 32768 THEN m.c.A[(ext \div 4096) % 8] ELSE m.c.D[(ext \div 4096) % 8], LAMBDA idx0 :
  Bind(IF (ext \div 2048) % 2 = 0 THEN SignExt16(idx0[2]) ELSE idx0, LAMBDA idx :
    Add32(AddU32(base, idx), Int8(ext % W8))))

\* An operand resolved to memory address a, to the immediate value i.
MemEA(a) == EA(eaMemory, 0, a, Zero32)
ImmEA(i) == EA(eaImmediate, 0, Zero32, i)

\* resolveEA leaves the resolved operand in m.ea
resolveEA(m, mode, reg, sz) ==
  CASE mode = 0 -> [m EXCEPT !.ea = EA(eaDataReg, reg, Zero32, Zero32)]
    [] mode = 1 -> [m EXCEPT !.ea = EA(eaAddrReg, reg, Zero32, Zero32)]
    [] mode = 2 -> [m EXCEPT !.ea = MemEA(m.c.A[reg])]
    [] mode = 3 ->
         [m EXCEPT !.c.A[reg] = Add32(@, IF reg = 7 /\ sz = Byte THEN 2 ELSE sz),
                   !.ea = MemEA(m.c.A[reg])]
    [] mode = 4 ->
         Bind(Add32(m.c.A[reg], 0 - (IF reg = 7 /\ sz = Byte THEN 2 ELSE sz)), LAMBDA a :
           [m EXCEPT !.c.A[reg] = a, !.ea = MemEA(a)])
    [] mode = 5 ->
         Bind(fetchPC(m), LAMBDA m1 :
           [m1 EXCEPT !.ea = MemEA(Add32(m1.c.A[reg], Int16(m1.v[2])))])
    [] mode = 6 ->
         Bind(fetchPC(m), LAMBDA m1 :
           [m1 EXCEPT !.ea = MemEA(calcIndex(m1, m1.c.A[reg], m1.v[2]))])
    [] mode = 7 /\ reg = 0 ->
         Bind(fetchPC(m), LAMBDA m1 : [m1 EXCEPT !.ea = MemEA(SignExt16(m1.v[2]))])
    [] mode = 7 /\ reg = 1 ->
         Bind(fetchPCLong(m), LAMBDA m1 : [m1 EXCEPT !.ea = MemEA(m1.v)])
    [] mode = 7 /\ reg = 2 ->
         Bind(fetchPC(m), LAMBDA m1 :
           [m1 EXCEPT !.ea = MemEA(Add32(m.c.PC, Int16(m1.v[2])))])
    [] mode = 7 /\ reg = 3 ->
         Bind(fetchPC(m), LAMBDA m1 :
           [m1 EXCEPT !.ea = MemEA(calcIndex(m1, m.c.PC, m1.v[2]))])
    [] mode = 7 /\ reg = 4 /\ sz = Byte ->
         Bind(fetchPC(m), LAMBDA m1 : [m1 EXCEPT !.ea = ImmEA(<<0, m1.v[2] % W8>>)])
    [] mode = 7 /\ reg = 4 /\ sz = Word ->
         Bind(fetchPC(m), LAMBDA m1 : [m1 EXCEPT !.ea = ImmEA(<<0, m1.v[2]>>)])
    [] mode = 7 /\ reg = 4 /\ sz = Long ->
         Bind(fetchPCLong(m), LAMBDA m1 : [m1 EXCEPT !.ea = ImmEA(m1.v)])
    [] OTHER ->
         Bind(exception(m, vecIllegalInstruction), LAMBDA m1 :
           [m1 EXCEPT !.ea = EA(eaDataReg, 0, Zero32, Zero32)])

\* ea.read leaves the value in m.v
eaRead(m, e, sz) ==
  CASE e.mode = eaDataReg -> [m EXCEPT !.v = MaskSz(sz, m.c.D[e.reg])]
    [] e.mode = eaAddrReg -> [m EXCEPT !.v = MaskSz(sz, m.c.A[e.reg])]
    [] e.mode = eaMemory -> readBus(m, sz, e.addr)
    [] e.mode = eaImmediate -> [m EXCEPT !.v = MaskSz(sz, e.imm)]
    [] OTHER -> [m EXCEPT !.v = Zero32]

eaWrite(m, e, sz, val) ==
  CASE e.mode = eaDataReg ->
         [m EXCEPT !.c.D[e.reg] =
            CASE sz = Byte -> <<@[1], (@[2] \div W8) * W8 + (val[2] % W8)>>
              [] sz = Word -> <<@[1], val[2]>>
              [] sz = Long -> val
              [] OTHER -> @]
    [] e.mode = eaAddrReg -> [m EXCEPT !.c.A[e.reg] = val]
    [] e.mode = eaMemory -> writeBus(m, sz, e.addr, val)
    [] OTHER -> m

eaFetchCycles(mode, reg, sz) ==
  LET base == CASE mode \in {0, 1} -> 0
                [] mode \in {2, 3} -> 4
                [] mode = 4 -> 6
                [] mode = 5 -> 8
                [] mode = 6 -> 10
                [] mode = 7 /\ reg = 0 -> 8
                [] mode = 7 /\ reg = 1 -> 12
                [] mode = 7 /\ reg = 2 -> 8
                [] mode = 7 /\ reg = 3 -> 10
                [] mode = 7 /\ reg = 4 -> 4
                [] OTHER -> 0
  IN IF sz = Long /\ base > 0 THEN base + 4 ELSE base

eaWriteCycles(mode, reg, sz) ==
  LET base == CASE mode \in {0, 1} -> 0
                [] mode \in {2, 3, 4} -> 4
                [] mode = 5 -> 8
                [] mode = 6 -> 10
                [] mode = 7 /\ reg = 0 -> 8
                [] mode = 7 /\ reg = 1 -> 12
                [] OTHER -> 0
  IN IF sz = Long /\ base > 0 THEN base + 4 ELSE base

sizeEncoding(bits) ==
  CASE bits = 0 -> Byte
    [] bits = 1 -> Word
    [] bits = 2 -> Long
    [] OTHER -> 0

moveSizeMap(bits) ==
  CASE bits = 1 -> Byte
    [] bits = 2 -> Long
    [] bits = 3 -> Word
    [] OTHER -> 0

\* ------------------------------------------------ instruction handlers
IrMode(m) == (m.c.ir \div 8) % 8
IrReg(m) == m.c.ir % 8

opNOP(m) == addCycles(m, 4)

opSTOP(m) ==
  IF ~supervisor(m) THEN exception(m, vecPrivilegeViolation)
  ELSE Bind(fetchPC(m), LAMBDA m1 :
       Bind(setSR(m1, m1.v[2]), LAMBDA m2 :
         [m2 EXCEPT !.c.stopped = TRUE, !.c.PC = m2.c.prevPC, !.c.cycles = @ + 4]))

opRESET(m) ==
  IF ~supervisor(m) THEN exception(m, vecPrivilegeViolation)
  ELSE [m EXCEPT !.br = TRUE, !.c.cycles = @ + 132]

opTRAP(m) == exception(m, (m.c.ir % 16) + vecTrap0)

opMOVEtoSR(m) ==
  IF ~supervisor(m) THEN exception(m, vecPrivilegeViolation)
  ELSE Bind(resolveEA(m, IrMode(m), IrReg(m), Word), LAMBDA m1 :
       Bind(eaRead(m1, m1.ea, Word), LAMBDA m2 :
       Bind(setSR(m2, m2.v[2]), LAMBDA m3 :
         addCycles(m3, 12 + eaFetchCycles(IrMode(m), IrReg(m), Word)))))

opMOVEtoUSP_Unchecked(m) ==
  [m EXCEPT !.c.USP = m.c.A[IrReg(m)], !.c.cycles = @ + 4]

opMOVEtoUSP(m) ==
  IF ~supervisor(m) THEN exception(m, vecPrivilegeViolation)
  ELSE [m EXCEPT !.c.USP = m.c.A[IrReg(m)], !.c.cycles = @ + 4]

opMOVEfromUSP(m) ==
  IF ~supervisor(m) THEN exception(m, vecPrivilegeViolation)
  ELSE [m EXCEPT !.c.A[IrReg(m)] = m.c.USP, !.c.cycles = @ + 4]

opANDItoSR(m) ==
  IF ~supervisor(m) THEN exception(m, vecPrivilegeViolation)
  ELSE Bind(fetchPC(m), LAMBDA m1 :
       Bind(setSR(m1, BitAnd(m1.c.SR, m1.v[2])), LAMBDA m2 : addCycles(m2, 20)))

opORItoSR(m) ==
  IF ~supervisor(m) THEN exception(m, vecPrivilegeViolation)
  ELSE Bind(fetchPC(m), LAMBDA m1 :
       Bind(setSR(m1, BitOr(m1.c.SR, m1.v[2])), LAMBDA m2 : addCycles(m2, 20)))

opEORItoSR(m) ==
  IF ~supervisor(m) THEN exception(m, vecPrivilegeViolation)
  ELSE Bind(fetchPC(m), LAMBDA m1 :
       Bind(setSR(m1, BitXor(m1.c.SR, m1.v[2])), LAMBDA m2 : addCycles(m2, 20)))

opRTE(m) ==
  IF ~supervisor(m) THEN exception(m, vecPrivilegeViolation)
  ELSE Bind(popWord(m), LAMBDA m1 :
       Bind(popLong(m1), LAMBDA m2 :
       Bind(setSR(m2, m1.v[2]), LAMBDA m3 :
         [m3 EXCEPT !.c.PC = m2.v, !.c.cycles = @ + 20])))

opJMP(m) ==
  Bind(resolveEA(m, IrMode(m), IrReg(m), Word), LAMBDA m1 :
    [m1 EXCEPT !.c.PC = m1.ea.addr, !.c.cycles = @ + 8])

\* The fields of a MOVE opcode: size bits 13-12, destination register 11-9
\* and mode 8-6.
MoveSize(m) == moveSizeMap((m.c.ir \div 4096) % 4)
MoveDstMode(m) == (m.c.ir \div 64) % 8
MoveDstReg(m) == (m.c.ir \div 512) % 8

opMOVE(m) ==
  Bind(MoveSize(m), LAMBDA sz :
  Bind(resolveEA(m, IrMode(m), IrReg(m), sz), LAMBDA m1 :
  Bind(eaRead(m1, m1.ea, sz), LAMBDA m2 :
  Bind(resolveEA(m2, MoveDstMode(m), MoveDstReg(m), sz), LAMBDA m3 :
  Bind(eaWrite(m3, m3.ea, sz, m2.v), LAMBDA m4 :
  Bind(setFlagsLogical(m4, m2.v, sz), LAMBDA m5 :
    addCycles(m5, 4 + eaFetchCycles(IrMode(m), IrReg(m), sz)
                    + eaWriteCycles(MoveDstMode(m), MoveDstReg(m), sz))))))))

\* The fields of an ADDX, AND, NOT or TST opcode: Rx in bits 11-9, size in 7-6, Ry in 2-0.
IrRx(m) == (m.c.ir \div 512) % 8
IrSize(m) == sizeEncoding((m.c.ir \div 64) % 4)
XBit(m) == IF BitAnd(m.c.SR, flagX) # 0 THEN 1 ELSE 0

\* Logical and bit-test handlers.
Not32(a) == <<65535 - a[1], 65535 - a[2]>>                  \* ^a
TestBit(val, n) ==                                          \* val&(1<<n) != 0
  IF n < 16 THEN (val[2] \div (2 ^ n)) % 2 = 1 ELSE (val[1] \div (2 ^ (n - 16))) % 2 = 1

opANDtoReg(m) ==
  Bind(IrSize(m), LAMBDA sz :
  Bind(resolveEA(m, IrMode(m), IrReg(m), sz), LAMBDA m1 :
  Bind(eaRead(m1, m1.ea, sz), LAMBDA m2 :
  Bind(And32(m2.v, MaskSz(sz, m2.c.D[IrRx(m)])), LAMBDA result :
  Bind(setFlagsLogical(m2, result, sz), LAMBDA m3 :
  Bind(eaWrite(m3, EA(eaDataReg, IrRx(m), Zero32, Zero32), sz, result), LAMBDA m4 :
    addCycles(m4, IF sz = Long THEN 8 ELSE 4)))))))

opNOT(m) ==
  Bind(IrSize(m), LAMBDA sz :
  Bind(resolveEA(m, IrMode(m), IrReg(m), sz), LAMBDA m1 :
  Bind(eaRead(m1, m1.ea, sz), LAMBDA m2 :
  Bind(MaskSz(sz, Not32(m2.v)), LAMBDA result :
  Bind(setFlagsLogical(m2, result, sz), LAMBDA m3 :
  Bind(eaWrite(m3, m1.ea, sz, result), LAMBDA m4 :
    addCycles(m4, 4 + (IF IrMode(m) >= 2 THEN 4 ELSE 0)
                    + (IF sz = Long /\ IrMode(m) = 0 THEN 2 ELSE 0))))))))

opTST(m) ==
  Bind(IrSize(m), LAMBDA sz :
  Bind(resolveEA(m, IrMode(m), IrReg(m), sz), LAMBDA m1 :
  Bind(eaRead(m1, m1.ea, sz), LAMBDA m2 :
  Bind(setFlagsLogical(m2, m2.v, sz), LAMBDA m3 :
    addCycles(m3, 4)))))

opBTSTdyn(m) ==
  IF IrMode(m) = 0
    THEN [m EXCEPT !.c.SR = IF TestBit(m.c.D[IrReg(m)], m.c.D[IrRx(m)][2] % 32)
                              THEN BitClear(@, flagZ) ELSE BitOr(@, flagZ),
                   !.c.cycles = @ + 6]
    ELSE Bind(resolveEA(m, IrMode(m), IrReg(m), Byte), LAMBDA m1 :
         Bind(eaRead(m1, m1.ea, Byte), LAMBDA m2 :
           [m2 EXCEPT !.c.SR = IF TestBit(m2.v, m.c.D[IrRx(m)][2] % 8)
                                 THEN BitClear(@, flagZ) ELSE BitOr(@, flagZ),
                      !.c.cycles = @ + 4]))

\* DBcc Dn,disp. The displacement is relative to the extension word.
opDBcc_ExpiresAtZero(m) ==
  Bind(fetchPC(m), LAMBDA m1 :
    IF testCondition(m1, (m.c.ir \div 256) % 16)
      THEN addCycles(m1, 12)
      ELSE Bind((m1.c.D[IrReg(m)][2] + W16 - 1) % W16, LAMBDA val :
           Bind([m1 EXCEPT !.c.D[IrReg(m)] = <<@[1], val>>], LAMBDA m2 :
             IF val = 0
               THEN addCycles(m2, 14)
               ELSE [m2 EXCEPT !.c.PC = Add32(Add32(@, -2), Int16(m1.v[2])),
                               !.c.cycles = @ + 10])))

opDBcc(m) ==
  Bind(fetchPC(m), LAMBDA m1 :
    IF testCondition(m1, (m.c.ir \div 256) % 16)
      THEN addCycles(m1, 12)
      ELSE Bind((m1.c.D[IrReg(m)][2] + W16 - 1) % W16, LAMBDA val :
           Bind([m1 EXCEPT !.c.D[IrReg(m)] = <<@[1], val>>], LAMBDA m2 :
             IF val = W16 - 1
               THEN addCycles(m2, 14)
               ELSE [m2 EXCEPT !.c.PC = Add32(Add32(@, -2), Int16(m1.v[2])),
                               !.c.cycles = @ + 10])))

\* MOVEA.W sign-extends the source; the condition codes are not touched.
opMOVEA_NoSignExtend(m) ==
  Bind(MoveSize(m), LAMBDA sz :
  Bind(resolveEA(m, IrMode(m), IrReg(m), sz), LAMBDA m1 :
  Bind(eaRead(m1, m1.ea, sz), LAMBDA m2 :
    [m2 EXCEPT !.c.A[MoveDstReg(m)] = m2.v,
               !.c.cycles = @ + 4 + eaFetchCycles(IrMode(m), IrReg(m), sz)])))

opMOVEA(m) ==
  Bind(MoveSize(m), LAMBDA sz :
  Bind(resolveEA(m, IrMode(m), IrReg(m), sz), LAMBDA m1 :
  Bind(eaRead(m1, m1.ea, sz), LAMBDA m2 :
    [m2 EXCEPT !.c.A[MoveDstReg(m)] = IF sz = Word THEN SignExt16(m2.v[2]) ELSE m2.v,
               !.c.cycles = @ + 4 + eaFetchCycles(IrMode(m), IrReg(m), sz)])))

\* MOVEM: bit i of the register list mask, register i of D0..D7, A0..A7.
Listed(mask, i) == (mask \div (2 ^ i)) % 2 = 1
RegValue(m, ri) == IF ri < 8 THEN m.c.D[ri] ELSE m.c.A[ri - 8]
SetReg(m, ri, val) ==
  IF ri < 8 THEN [m EXCEPT !.c.D[ri] = val] ELSE [m EXCEPT !.c.A[ri - 8] = val]
OnesCount16(mask) == Cardinality({i \in 0..15 : Listed(mask, i)})

\* The three loops of opMOVEM from bit i on; the running address is m.ea.addr.
RECURSIVE movemPredec(_, _, _, _)
movemPredec(m, sz, mask, i) ==
  IF i = 16 THEN m
  ELSE IF Listed(mask, i)
    THEN Bind(Add32(m.ea.addr, 0 - sz), LAMBDA a :
         Bind(writeBus(m, sz, a, RegValue(m, 15 - i)), LAMBDA m1 :
           movemPredec([m1 EXCEPT !.ea = MemEA(a)], sz, mask, i + 1)))
    ELSE movemPredec(m, sz, mask, i + 1)

RECURSIVE movemStore(_, _, _, _)
movemStore(m, sz, mask, i) ==
  IF i = 16 THEN m
  ELSE IF Listed(mask, i)
    THEN Bind(writeBus(m, sz, m.ea.addr, RegValue(m, i)), LAMBDA m1 :
           movemStore([m1 EXCEPT !.ea = MemEA(Add32(m.ea.addr, sz))], sz, mask, i + 1))
    ELSE movemStore(m, sz, mask, i + 1)

RECURSIVE movemLoad(_, _, _, _)
movemLoad(m, sz, mask, i) ==
  IF i = 16 THEN m
  ELSE IF Listed(mask, i)
    THEN Bind(readBus(m, sz, m.ea.addr), LAMBDA m1 :
         Bind(IF sz = Word THEN SignExt16(m1.v[2]) ELSE m1.v, LAMBDA val :
           movemLoad([SetReg(m1, i, val) EXCEPT !.ea = MemEA(Add32(m.ea.addr, sz))],
                     sz, mask, i + 1)))
    ELSE movemLoad(m, sz, mask, i + 1)

movemBase(dir, mode, reg) ==
  IF dir = 0
    THEN CASE mode \in {2, 4} -> 8
           [] mode = 5 -> 12
           [] mode = 6 -> 14
           [] mode = 7 /\ reg = 0 -> 12
           [] mode = 7 /\ reg = 1 -> 16
           [] OTHER -> 0
    ELSE CASE mode \in {2, 3} -> 12
           [] mode = 5 -> 16
           [] mode = 6 -> 18
           [] mode = 7 /\ reg = 0 -> 16
           [] mode = 7 /\ reg = 1 -> 20
           [] mode = 7 /\ reg = 2 -> 16
           [] mode = 7 /\ reg = 3 -> 18
           [] OTHER -> 0

opMOVEM(m) ==
  Bind((m.c.ir \div 1024) % 2, LAMBDA dir :
  Bind(IF (m.c.ir \div 64) % 2 # 0 THEN Long ELSE Word, LAMBDA sz :
  Bind(fetchPC(m), LAMBDA f :
  Bind(f.v[2], LAMBDA mask :
  Bind(CASE dir = 0 /\ IrMode(m) = 4 ->
              Bind(movemPredec([f EXCEPT !.ea = MemEA(f.c.A[IrReg(m)])], sz, mask, 0), LAMBDA m1 :
                [m1 EXCEPT !.c.A[IrReg(m)] = m1.ea.addr])
         [] dir = 0 /\ IrMode(m) # 4 ->
              movemStore(resolveEA(f, IrMode(m), IrReg(m), sz), sz, mask, 0)
         [] dir = 1 /\ IrMode(m) = 3 ->
              Bind(movemLoad([f EXCEPT !.ea = MemEA(f.c.A[IrReg(m)])], sz, mask, 0), LAMBDA m1 :
                [m1 EXCEPT !.c.A[IrReg(m)] = m1.ea.addr])
         [] OTHER ->
              movemLoad(resolveEA(f, IrMode(m), IrReg(m), sz), sz, mask, 0), LAMBDA m2 :
    addCycles(m2, movemBase(dir, IrMode(m), IrReg(m))
                  + OnesCount16(mask) * (IF sz = Long THEN 8 ELSE 4)))))))

opORI(m) ==
  Bind(sizeEncoding((m.c.ir \div 64) % 4), LAMBDA sz :
  Bind(IF sz = Long THEN fetchPCLong(m) ELSE fetchPC(m), LAMBDA f :
  Bind([f EXCEPT !.v = MaskSz(sz, @)], LAMBDA m1 :
  Bind(resolveEA(m1, IrMode(m), IrReg(m), sz), LAMBDA m2 :
  Bind(eaRead(m2, m2.ea, sz), LAMBDA m3 :
  Bind(Or32(m3.v, m1.v), LAMBDA result :
  Bind(setFlagsLogical(m3, result, sz), LAMBDA m4 :
  Bind(eaWrite(m4, m2.ea, sz, result), LAMBDA m5 :
    addCycles(m5, IF sz = Long THEN 16 ELSE 8)))))))))

\* ADDX leaves Z as it was when the result is zero.
KeepZ(m, oldZ, result, sz) ==
  IF MaskSz(sz, result) = Zero32
    THEN [m EXCEPT !.c.SR = BitOr(BitClear(@, flagZ), oldZ)]
    ELSE m

opADDXreg_SetsZ(m) ==
  Bind(IrSize(m), LAMBDA sz :
  Bind(MaskSz(sz, m.c.D[IrReg(m)]), LAMBDA s :
  Bind(MaskSz(sz, m.c.D[IrRx(m)]), LAMBDA d :
  Bind(AddU32(AddU32(d, s), <<0, XBit(m)>>), LAMBDA result :
  Bind(setFlagsAdd(m, s, d, result, sz), LAMBDA m1 :
  Bind(eaWrite(m1, EA(eaDataReg, IrRx(m), Zero32, Zero32), sz, result), LAMBDA m3 :
    addCycles(m3, IF sz = Long THEN 8 ELSE 4)))))))

opADDXreg(m) ==
  Bind(IrSize(m), LAMBDA sz :
  Bind(MaskSz(sz, m.c.D[IrReg(m)]), LAMBDA s :
  Bind(MaskSz(sz, m.c.D[IrRx(m)]), LAMBDA d :
  Bind(AddU32(AddU32(d, s), <<0, XBit(m)>>), LAMBDA result :
  Bind(setFlagsAdd(m, s, d, result, sz), LAMBDA m1 :
  Bind(KeepZ(m1, BitAnd(m.c.SR, flagZ), result, sz), LAMBDA m2 :
  Bind(eaWrite(m2, EA(eaDataReg, IrRx(m), Zero32, Zero32), sz, result), LAMBDA m3 :
    addCycles(m3, IF sz = Long THEN 8 ELSE 4))))))))

opADDXmem(m) ==
  Bind(IrSize(m), LAMBDA sz :
  Bind(resolveEA(m, 4, IrReg(m), sz), LAMBDA m1 :
  Bind(eaRead(m1, m1.ea, sz), LAMBDA ms :
  Bind(resolveEA(ms, 4, IrRx(m), sz), LAMBDA m2 :
  Bind(eaRead(m2, m2.ea, sz), LAMBDA md :
  Bind(AddU32(AddU32(md.v, ms.v), <<0, XBit(md)>>), LAMBDA result :
  Bind(setFlagsAdd(md, ms.v, md.v, result, sz), LAMBDA m3 :
  Bind(KeepZ(m3, BitAnd(md.c.SR, flagZ), result, sz), LAMBDA m4 :
  Bind(eaWrite(m4, m2.ea, sz, result), LAMBDA m5 :
    addCycles(m5, IF sz = Long THEN 30 ELSE 18))))))))))

\* ----------------------------------------------------- opcode table
\* The handler opcodeTable[ir] holds: "nil" for an unregistered opcode,
\* "other" for a registered handler this model does not cover.
ValidSrcEA(mode, reg) == mode # 7 \/ reg <= 4
ValidDataAltEA(mode, reg) == mode # 1 /\ (mode # 7 \/ reg <= 1)

Handler(ir) ==
  LET mode == (ir \div 8) % 8
      reg == ir % 8
  IN CASE ir = 20081 -> "NOP"                                   \* 0x4E71
       [] ir = 20082 -> "STOP"                                  \* 0x4E72
       [] ir = 20080 -> "RESET"                                 \* 0x4E70
       [] ir = 20083 -> "RTE"                                   \* 0x4E73
       [] ir \in 20032..20047 -> "TRAP"                         \* 0x4E40..0x4E4F
       [] ir \div 4096 = 13 /\ (ir \div 256) % 2 = 1 /\ (ir \div 64) % 4 # 3
            /\ mode = 0 -> "ADDXreg"                             \* 0xD100|rx<<9|sz<<6|ry
       [] ir \div 4096 = 13 /\ (ir \div 256) % 2 = 1 /\ (ir \div 64) % 4 # 3
            /\ mode = 1 -> "ADDXmem"                             \* 0xD108|rx<<9|sz<<6|ry
       [] ir \in 20064..20071 -> "MOVEtoUSP"                    \* 0x4E60|an
       [] ir \in 20072..20079 -> "MOVEfromUSP"                  \* 0x4E68|an
       [] ir = 636 -> "ANDItoSR"                                \* 0x027C
       [] ir = 124 -> "ORItoSR"                                 \* 0x007C
       [] ir = 2684 -> "EORItoSR"                               \* 0x0A7C
       [] ir \in 18112..18175 /\ mode # 1 /\ ValidSrcEA(mode, reg) -> "MOVEtoSR"   \* 0x46C0|ea
       [] ir \in 20160..20223 /\ mode \in {2, 5, 6, 7} /\ (mode # 7 \/ reg <= 3) -> "JMP"  \* 0x4EC0|ea
       [] ir \div 4096 = 12 /\ (ir \div 64) % 8 <= 2
            /\ mode # 1 /\ ValidSrcEA(mode, reg) -> "ANDtoReg"  \* 0xC000|dn<<9|sz<<6|ea
       [] ir \in 17920..18111 /\ ValidDataAltEA(mode, reg) -> "NOT"   \* 0x4600|sz<<6|ea
       [] ir \in 18944..19135 /\ ValidDataAltEA(mode, reg) -> "TST"   \* 0x4A00|sz<<6|ea
       [] ir < 4096 /\ (ir \div 64) % 8 = 4
            /\ mode # 1 /\ ValidSrcEA(mode, reg) -> "BTSTdyn"   \* 0x0100|dn<<9|ea
       [] ir \div 4096 = 5 /\ (ir \div 8) % 32 = 25 -> "DBcc"     \* 0x50C8|cc<<8|dn
       [] ir \in 0..191 /\ ValidDataAltEA(mode, reg) -> "ORI"   \* 0x0000|sz<<6|ea
       [] ir \in 8192..16383 /\ (ir \div 64) % 8 = 1
            /\ ValidSrcEA(mode, reg) -> "MOVEA"                 \* 0x2000|an<<9|0x40|ea
       [] ir \div 2048 = 9 /\ (ir \div 128) % 8 = 1 /\ mode >= 2
            /\ ~((ir \div 1024) % 2 = 0 /\ mode = 3) /\ ~((ir \div 1024) % 2 = 1 /\ mode = 4)
            /\ (mode # 7 \/ reg <= (IF (ir \div 1024) % 2 = 0 THEN 1 ELSE 3))
            -> "MOVEM"                                          \* 0x4880|dir<<10|sz<<6|ea
       [] ir \in 4096..16383 /\ (ir \div 64) % 8 # 1
            /\ ((ir \div 64) % 8 # 7 \/ (ir \div 512) % 8 <= 1)
            /\ ValidSrcEA(mode, reg) -> "MOVE"                  \* 0x1000..0x3FFF
       [] ir \div 4096 \in {10, 15} -> "nil"                    \* line A, line F
       [] ir = 19196 -> "nil"                                   \* 0x4AFC ILLEGAL
       [] OTHER -> "other"

Execute(m) ==
  Bind(Handler(m.c.ir), LAMBDA h :
    CASE h = "nil" ->
           (CASE m.c.ir \div 4096 = 10 -> exception(m, vecLineA)
              [] m.c.ir \div 4096 = 15 -> exception(m, vecLineF)
              [] OTHER -> exception(m, vecIllegalInstruction))
      [] h = "NOP" -> opNOP(m)
      [] h = "STOP" -> opSTOP(m)
      [] h = "RESET" -> opRESET(m)
      [] h = "RTE" -> opRTE(m)
      [] h = "TRAP" -> opTRAP(m)
      [] h = "ANDItoSR" -> opANDItoSR(m)
      [] h = "ORItoSR" -> opORItoSR(m)
      [] h = "EORItoSR" -> opEORItoSR(m)
      [] h = "MOVEtoSR" -> opMOVEtoSR(m)
      [] h = "MOVEtoUSP" -> opMOVEtoUSP(m)
      [] h = "ADDXreg" -> opADDXreg(m)
      [] h = "ADDXmem" -> opADDXmem(m)
      [] h = "MOVEfromUSP" -> opMOVEfromUSP(m)
      [] h = "JMP" -> opJMP(m)
      [] h = "ORI" -> opORI(m)
      [] h = "MOVE" -> opMOVE(m)
      [] h = "MOVEA" -> opMOVEA(m)
      [] h = "DBcc" -> opDBcc(m)
      [] h = "ANDtoReg" -> opANDtoReg(m)
      [] h = "NOT" -> opNOT(m)
      [] h = "TST" -> opTST(m)
      [] h = "BTSTdyn" -> opBTSTdyn(m)
      [] h = "MOVEM" -> opMOVEM(m)
      [] OTHER -> [m EXCEPT !.other = TRUE])

\* ------------------------------------------------------ public API
\* Step from the odd-PC check on: fetch, dispatch, post-instruction check.
\* before is c.cycles when Step was entered.
StepFetch_NoPostCheck(m, before) ==
  IF IsOdd(m.c.PC)
    THEN [m EXCEPT !.c.halted = TRUE, !.ret = 0]
  ELSE Bind(fetchPC([m EXCEPT !.c.prevPC = m.c.PC]), LAMBDA m3 :
       Bind(Execute([m3 EXCEPT !.c.ir = m3.v[2], !.c.IR = m3.v[2]]), LAMBDA m5 :
         [m5 EXCEPT !.ret = m5.c.cycles - before]))

StepFetch(m, before) ==
  IF IsOdd(m.c.PC)
    THEN [m EXCEPT !.c.halted = TRUE, !.ret = 0]
  ELSE Bind(fetchPC([m EXCEPT !.c.prevPC = m.c.PC]), LAMBDA m3 :
       Bind(Execute([m3 EXCEPT !.c.ir = m3.v[2], !.c.IR = m3.v[2]]), LAMBDA m5 :
       Bind(IF ~m5.c.halted /\ IsOdd(m5.c.PC)
              THEN [m5 EXCEPT !.c.halted = TRUE] ELSE m5, LAMBDA m6 :
         [m6 EXCEPT !.ret = m6.c.cycles - before])))

StepRun_IgnoreStopped(m) ==
  Bind(checkInterrupt(m), LAMBDA m1 : StepFetch(m1, m.c.cycles))

\* Step once the halted check has passed.
StepRun(m) ==
  IF m.c.stopped
    THEN Bind(addCycles(m, 4), LAMBDA m0 :
         Bind(checkInterrupt(m0), LAMBDA m1 :
           [m1 EXCEPT !.ret = m1.c.cycles - m.c.cycles]))
    ELSE Bind(checkInterrupt(m), LAMBDA m1 : StepFetch(m1, m.c.cycles))

Step_IgnoreHalted(m) == StepRun(m)

Step(m) ==
  IF m.c.halted THEN [m EXCEPT !.ret = 0] ELSE StepRun(m)

StepCycles_RunsAfterPaydown(m, budget) ==
  IF m.c.halted THEN [m EXCEPT !.ret = 0]
  ELSE IF m.c.deficit > 0 /\ budget < m.c.deficit
    THEN [m EXCEPT !.ret = budget, !.c.deficit = @ - budget]
  ELSE Bind(Step([m EXCEPT !.c.deficit = 0]), LAMBDA m1 :
         IF m1.ret <= budget THEN m1
         ELSE [m1 EXCEPT !.c.deficit = m1.ret - budget, !.ret = budget])

StepCycles_DropsExcess(m, budget) ==
  IF m.c.halted THEN [m EXCEPT !.ret = 0]
  ELSE IF m.c.deficit > 0
    THEN IF budget >= m.c.deficit
           THEN [m EXCEPT !.ret = m.c.deficit, !.c.deficit = 0]
           ELSE [m EXCEPT !.ret = budget, !.c.deficit = @ - budget]
  ELSE Bind(Step(m), LAMBDA m1 :
         IF m1.ret <= budget THEN m1 ELSE [m1 EXCEPT !.ret = budget])

StepCycles(m, budget) ==
  IF m.c.halted THEN [m EXCEPT !.ret = 0]
  ELSE IF m.c.deficit > 0
    THEN IF budget >= m.c.deficit
           THEN [m EXCEPT !.ret = m.c.deficit, !.c.deficit = 0]
           ELSE [m EXCEPT !.ret = budget, !.c.deficit = @ - budget]
  ELSE Bind(Step(m), LAMBDA m1 :
         IF m1.ret <= budget THEN m1
         ELSE [m1 EXCEPT !.c.deficit = m1.ret - budget, !.ret = budget])

ZeroRegs == [n \in 0..7 |-> Zero32]

Reset_KeepsHalted(m) ==
  Bind(BusRead(m.mem, Long, 0), LAMBDA ssp :
  Bind(BusRead(m.mem, Long, 4), LAMBDA pc :
     [m EXCEPT !.c.D = ZeroRegs,
               !.c.A = [ZeroRegs EXCEPT ![7] = ssp],
               !.c.PC = pc, !.c.SR = 9984, !.c.USP = Zero32, !.c.SSP = ssp, !.c.IR = 0,
               !.c.stopped = FALSE, !.c.cycles = 0, !.c.deficit = 0,
               !.c.pendingIPL = 0, !.c.pendingVec = NoVec,
               !.tr = <<Req("R", Long, Zero32, FALSE, FALSE, TRUE, 0, 0, ssp),
                        Req("R", Long, U32(4), FALSE, FALSE, TRUE, 4, 0, pc)>>]))

Reset_KeepsCycles(m) ==
  Bind(BusRead(m.mem, Long, 0), LAMBDA ssp :
  Bind(BusRead(m.mem, Long, 4), LAMBDA pc :
     [m EXCEPT !.c.D = ZeroRegs,
               !.c.A = [ZeroRegs EXCEPT ![7] = ssp],
               !.c.PC = pc, !.c.SR = 9984, !.c.USP = Zero32, !.c.SSP = ssp, !.c.IR = 0,
               !.c.stopped = FALSE, !.c.halted = FALSE, !.c.deficit = 0,
               !.c.pendingIPL = 0, !.c.pendingVec = NoVec,
               !.tr = <<Req("R", Long, Zero32, FALSE, FALSE, TRUE, 0, 0, ssp),
                        Req("R", Long, U32(4), FALSE, FALSE, TRUE, 4, 0, pc)>>]))

Reset_KeepsStopped(m) ==
  Bind(BusRead(m.mem, Long, 0), LAMBDA ssp :
  Bind(BusRead(m.mem, Long, 4), LAMBDA pc :
     [m EXCEPT !.c.D = ZeroRegs,
               !.c.A = [ZeroRegs EXCEPT ![7] = ssp],
               !.c.PC = pc, !.c.SR = 9984, !.c.USP = Zero32, !.c.SSP = ssp, !.c.IR = 0,
               !.c.halted = FALSE, !.c.cycles = 0, !.c.deficit = 0,
               !.c.pendingIPL = 0, !.c.pendingVec = NoVec,
               !.tr = <<Req("R", Long, Zero32, FALSE, FALSE, TRUE, 0, 0, ssp),
                        Req("R", Long, U32(4), FALSE, FALSE, TRUE, 4, 0, pc)>>]))

Reset(m) ==
  Bind(BusRead(m.mem, Long, 0), LAMBDA ssp :
  Bind(BusRead(m.mem, Long, 4), LAMBDA pc :
     [m EXCEPT !.c.D = ZeroRegs,
               !.c.A = [ZeroRegs EXCEPT ![7] = ssp],
               !.c.PC = pc, !.c.SR = 9984, !.c.USP = Zero32, !.c.SSP = ssp, !.c.IR = 0,
               !.c.stopped = FALSE, !.c.halted = FALSE, !.c.cycles = 0, !.c.deficit = 0,
               !.c.pendingIPL = 0, !.c.pendingVec = NoVec,
               !.tr = <<Req("R", Long, Zero32, FALSE, FALSE, TRUE, 0, 0, ssp),
                        Req("R", Long, U32(4), FALSE, FALSE, TRUE, 4, 0, pc)>>]))

SetState_A7FromUSP(m, regs) ==
  [m EXCEPT !.c.D = regs.D,
            !.c.SR = regs.SR, !.c.USP = regs.USP, !.c.SSP = regs.SSP, !.c.PC = regs.PC,
            !.c.stopped = FALSE, !.c.halted = FALSE, !.c.cycles = 0, !.c.deficit = 0,
            !.c.pendingIPL = 0, !.c.pendingVec = NoVec,
            !.c.A = [n \in 0..7 |-> IF n < 7 THEN regs.A[n] ELSE regs.USP]]

SetState(m, regs) ==
  [m EXCEPT !.c.D = regs.D,
            !.c.SR = regs.SR, !.c.USP = regs.USP, !.c.SSP = regs.SSP, !.c.PC = regs.PC,
            !.c.stopped = FALSE, !.c.halted = FALSE, !.c.cycles = 0, !.c.deficit = 0,
            !.c.pendingIPL = 0, !.c.pendingVec = NoVec,
            !.c.A = [n \in 0..7 |->
                       IF n < 7 THEN regs.A[n]
                       ELSE IF BitAnd(regs.SR, flagS) # 0 THEN regs.SSP ELSE regs.USP]]

RequestInterrupt_Always(m, level, vector) ==
  [m EXCEPT !.c.pendingIPL = level, !.c.pendingVec = vector]

RequestInterrupt(m, level, vector) ==
  IF level > m.c.pendingIPL
    THEN [m EXCEPT !.c.pendingIPL = level, !.c.pendingVec = vector]
    ELSE m

AddCycles(m, n) == [m EXCEPT !.c.cycles = @ + n]

\* --------------------------------------------------------- snapshots
\* binary.BigEndian: bytes of a uint16, a uint32 (a pair of halves) and a
\* uint64 (the cycle counts of this model are below 2^31, so the top four
\* bytes are 0).
PutUint16(w) == <<w \div W8, w % W8>>
PutUint32(v) == PutUint16(v[1]) \o PutUint16(v[2])
PutUint64(n) == <<0, 0, 0, 0>> \o PutUint32(U32(n))
Uint16(buf, off) == buf[off + 1] * W8 + buf[off + 2]
Uint32(buf, off) == <<Uint16(buf, off), Uint16(buf, off + 2)>>
Uint64(buf, off) ==
  ((((((buf[off + 1] * W8 + buf[off + 2]) * W8 + buf[off + 3]) * W8 + buf[off + 4]) * W8
      + buf[off + 5]) * W8 + buf[off + 6]) * W8 + buf[off + 7]) * W8 + buf[off + 8]
boolByte(b) == IF b THEN 1 ELSE 0
\* uint32(int32(n)) and int(int32(u)) for an int n that fits 32 bits.
PutInt32(n) ==
  IF n >= 0 THEN PutUint32(U32(n))
  ELSE PutUint32(<<W16 - 1 - ((-n - 1) \div W16), W16 - 1 - ((-n - 1) % W16)>>)
Int32(buf, off) ==
  Bind(Uint32(buf, off), LAMBDA u :
    IF u[1] < W16 \div 2 THEN u[1] * W16 + u[2]
    ELSE -((W16 - 1 - u[1]) * W16 + (W16 - 1 - u[2])) - 1)
PutRegs(r) ==
  PutUint32(r[0]) \o PutUint32(r[1]) \o PutUint32(r[2]) \o PutUint32(r[3]) \o
  PutUint32(r[4]) \o PutUint32(r[5]) \o PutUint32(r[6]) \o PutUint32(r[7])

Snapshot_OmitsDeficit(c) ==
  <<cpuSerializeVersion>> \o PutRegs(c.D) \o PutRegs(c.A) \o
  PutUint32(c.PC) \o PutUint16(c.SR) \o PutUint32(c.USP) \o PutUint32(c.SSP) \o
  PutUint16(c.IR) \o PutUint64(c.cycles) \o PutUint16(c.ir) \o
  <<boolByte(c.stopped), boolByte(c.halted)>> \o PutUint32(c.prevPC) \o
  <<c.pendingIPL>> \o
  (IF c.pendingVec # NoVec THEN <<1, c.pendingVec>> ELSE <<0, 0>>) \o
  PutInt32(0)

\* The 104 bytes Serialize writes.
Snapshot(c) ==
  <<cpuSerializeVersion>> \o PutRegs(c.D) \o PutRegs(c.A) \o
  PutUint32(c.PC) \o PutUint16(c.SR) \o PutUint32(c.USP) \o PutUint32(c.SSP) \o
  PutUint16(c.IR) \o PutUint64(c.cycles) \o PutUint16(c.ir) \o
  <<boolByte(c.stopped), boolByte(c.halted)>> \o PutUint32(c.prevPC) \o
  <<c.pendingIPL>> \o
  (IF c.pendingVec # NoVec THEN <<1, c.pendingVec>> ELSE <<0, 0>>) \o
  PutInt32(c.deficit)

\* Serialize(buf): the error flag and the buffer afterwards.
Serialize(c, buf) ==
  IF Len(buf) < cpuSerializeSize
    THEN [err |-> TRUE, buf |-> buf]
    ELSE [err |-> FALSE,
          buf |-> Snapshot(c) \o SubSeq(buf, cpuSerializeSize + 1, Len(buf))]

\* The CPU fields Deserialize assigns, read from buf.
Restored(c, buf) ==
  [c EXCEPT !.D = [i \in 0..7 |-> Uint32(buf, 1 + 4 * i)],
            !.A = [i \in 0..7 |-> Uint32(buf, 33 + 4 * i)],
            !.PC = Uint32(buf, 65), !.SR = Uint16(buf, 69),
            !.USP = Uint32(buf, 71), !.SSP = Uint32(buf, 75),
            !.IR = Uint16(buf, 79), !.cycles = Uint64(buf, 81),
            !.ir = Uint16(buf, 89),
            !.stopped = (buf[92] # 0), !.halted = (buf[93] # 0),
            !.prevPC = Uint32(buf, 93), !.pendingIPL = buf[98],
            !.pendingVec = IF buf[99] # 0 THEN buf[100] ELSE NoVec,
            !.deficit = Int32(buf, 100)]

Deserialize_VecAlwaysPresent(c, buf) ==
  IF Len(buf) < cpuSerializeSize THEN [err |-> TRUE, c |-> c]
  ELSE IF buf[1] # cpuSerializeVersion THEN [err |-> TRUE, c |-> c]
  ELSE [err |-> FALSE, c |-> [Restored(c, buf) EXCEPT !.pendingVec = buf[100]]]

Deserialize_NoVersionCheck(c, buf) ==
  IF Len(buf) < cpuSerializeSize THEN [err |-> TRUE, c |-> c]
  ELSE [err |-> FALSE, c |-> Restored(c, buf)]

\* Deserialize(buf): the error flag and the CPU afterwards.
Deserialize(c, buf) ==
  IF Len(buf) < cpuSerializeSize THEN [err |-> TRUE, c |-> c]
  ELSE IF buf[1] # cpuSerializeVersion THEN [err |-> TRUE, c |-> c]
  ELSE [err |-> FALSE, c |-> Restored(c, buf)]

\* ------------------------------------------------------------ state
VARIABLES
  cpu,       \* the fields of CPU
  mem,       \* the bus memory
  tr,        \* the bus requests of the last operation
  sw,        \* the SR writes of the last operation that can switch mode
  svc,       \* the interrupt service of the last operation (NoSvc when none)
  exc,       \* the exception of the last operation (NoExc when none)
  br,        \* whether the last operation called Bus.Reset
  ret,       \* the value the last operation returned (0 when it returns none)
  op,        \* the last operation
  arg,       \* its argument, in the specifications that record arguments
  haltSeen   \* halted has been true since the last Reset

vars == <<cpu, mem, tr, sw, svc, exc, br, ret, op, arg, haltSeen>>

\* Big-endian words ws laid out from byte address base.
WordsAt(base, ws) ==
  [a \in base..(base + 2 * Len(ws) - 1) |->
     LET w == ws[((a - base) \div 2) + 1]
     IN IF (a - base) % 2 = 0 THEN w \div W8 ELSE w % W8]

\* The memory image on the bus at power-on.
\*   vectors: reset SSP 0x8000, reset PC 0x1000; 4 (illegal) and 8
\*   (privilege) -> 0x3000; 10 (line A) zero; 11 (line F) -> 0x3001; 15 ->
\*   0x3004; 24 (spurious) -> 0x3002; 27 (level 3) zero; 25, 26, 28..31 ->
\*   0x3000; 32 (TRAP #0) -> 0x3000; 33 (TRAP #1) -> 0x3001; 64 -> 0x3003.
Image ==
  WordsAt(0, <<0, 32768, 0, 4096>>) @@
  WordsAt(16, <<0, 12288>>) @@
  WordsAt(32, <<0, 12288>>) @@
  WordsAt(44, <<0, 12289>>) @@
  WordsAt(60, <<0, 12292>>) @@
  WordsAt(96, <<0, 12290, 0, 12288, 0, 12288, 0, 0, 0, 12288, 0, 12288, 0, 12288, 0, 12288,
                0, 12288, 0, 12289>>) @@
  WordsAt(256, <<0, 12291>>) @@
  \* 0x1000: NOP; TRAP #0; MOVE D0,SR; STOP #$2300; ANDI #$DFFF,SR; NOP; RTE;
  \*         ORI #$2000,SR; EORI #$2000,SR; MOVE.W (A0),D0; MOVE.B D0,(A0);
  \*         MOVE.L D0,(A0); MOVE.B (A0),D0; JMP (A0); ILLEGAL; line F; RESET; NOP;
  \*         MOVE.L D0,(A0); line A; MOVE A0,USP; MOVE USP,A1; NOP;
  \*         MOVE.W (A7)+,D0; MOVE A0,USP; NOP
  WordsAt(4096, <<20081, 20032, 18112, 20082, 8960, 636, 57343, 20081, 20083,
                  124, 8192, 2684, 8192, 12304, 4224, 8320, 4112, 20176, 19196,
                  61440, 20080, 20081, 8320, 40960, 20064, 20073, 20081,
                  12319, 20064, 20081>>) @@
  \* 0x3000: RTE; NOP; RTE
  WordsAt(12288, <<20083, 20081, 20083>>)

ZeroCPU ==
  [D |-> ZeroRegs, A |-> ZeroRegs, PC |-> Zero32, SR |-> 0, USP |-> Zero32,
   SSP |-> Zero32, IR |-> 0, cycles |-> 0, ir |-> 0, stopped |-> FALSE,
   halted |-> FALSE, prevPC |-> Zero32, pendingIPL |-> 0, pendingVec |-> NoVec,
   deficit |-> 0]

\* The machine an operation starts from: the CPU and the bus, empty logs.
Mach(c, memory) ==
  [c |-> c, mem |-> memory, tr |-> <<>>, sw |-> <<>>, svc |-> NoSvc, exc |-> NoExc,
   br |-> FALSE,
   ret |-> 0, v |-> Zero32, ea |-> EA(eaDataReg, 0, Zero32, Zero32), other |-> FALSE]

Now == Mach(cpu, mem)

\* ------------------------------------------------------------ inputs
Regs(d0, a0, pc, sr, usp, ssp) ==
  [D |-> [ZeroRegs EXCEPT ![0] = d0], A |-> [ZeroRegs EXCEPT ![0] = a0],
   PC |-> pc, SR |-> sr, USP |-> usp, SSP |-> ssp]

\* Register files handed to SetState.
States ==
  { Regs(U32(768), U32(8192), U32(4100), 8192, U32(24576), U32(32768)),   \* MOVE D0,SR -> user, mask 3
    Regs(U32(9216), U32(8192), U32(4102), 8960, U32(24576), U32(32768)),  \* STOP, mask 3
    Regs(U32(0), U32(8192), U32(4106), 8192, U32(24577), U32(32768)),     \* ANDI -> user, odd USP
    Regs(U32(0), U32(8192), U32(4112), 0, U32(24576), U32(32769)),        \* user mode at RTE, odd SSP
    Regs(U32(0), U32(8192), U32(4114), 8192, U32(24576), U32(32768)),     \* ORI, EORI -> user
    Regs(U32(4660), U32(8193), U32(4122), 9984, U32(24576), U32(32768)),  \* MOVE.W, A0 odd
    Regs(U32(4660), U32(8192), U32(4122), 9984, U32(24576), U32(32768)),  \* MOVEs, A0 even
    Regs(U32(4660), U32(8193), U32(4124), 9984, U32(24576), U32(32768)),  \* MOVE.B, MOVE.L, A0 odd
    Regs(U32(0), U32(12291), U32(4128), 8192, U32(24576), U32(32768)),    \* MOVE.B (A0), JMP to odd
    Regs(U32(0), U32(8192), U32(4132), 8192, U32(24576), U32(32769)),     \* ILLEGAL, odd SSP
    Regs(U32(0), U32(8192), U32(4132), 0, U32(24576), U32(32768)),        \* ILLEGAL in user mode
    Regs(U32(0), U32(8192), U32(4134), 8192, U32(24576), U32(32768)),     \* line F, odd handler
    Regs(U32(0), U32(60), U32(4140), 8192, U32(24576), U32(32768)),       \* zero vector 15, line A
    Regs(U32(0), U32(96), U32(4140), 8192, U32(24576), U32(32768)),       \* zero vector 24, line A
    Regs(U32(0), U32(8192), U32(4097), 9984, U32(24576), U32(32768)),     \* odd PC
    Regs(U32(0), U32(8192), U32(4096), 65535, U32(24576), U32(32768)) }   \* SR with reserved bits

\* Interrupt requests: level and vector (NoVec: auto-vector).
Requests == { <<3, NoVec>>, <<3, 64>>, <<7, NoVec>>, <<MaxLevel, NoVec>> }
Budgets == {MaxBudget}

\* ----------------------------------------------------------- actions
Commit(r, name, a) ==
  /\ cpu' = r.c
  /\ mem' = r.mem
  /\ tr' = r.tr
  /\ sw' = r.sw
  /\ svc' = r.svc
  /\ exc' = r.exc
  /\ br' = r.br
  /\ ret' = r.ret
  /\ op' = name
  /\ arg' = a

Init ==
  \E r \in {Reset(Mach(ZeroCPU, Image))} :
     /\ cpu = r.c
     /\ mem = r.mem
     /\ tr = r.tr
     /\ sw = <<>>
     /\ svc = NoSvc
     /\ exc = NoExc
     /\ br = FALSE
     /\ ret = 0
     /\ op = "New"
     /\ arg = 0
     /\ haltSeen = FALSE

\* The host re-images the bus before it resets or sets up the CPU, as a
\* power cycle or a test set-up does; Reset and SetState themselves leave
\* the bus memory alone.
DoReset ==
  \E r \in {Reset(Mach(cpu, Image))} :
    /\ Commit(r, "Reset", 0)
    /\ haltSeen' = FALSE

DoStep ==
  /\ cpu.cycles < MaxCycles
  /\ \E r \in {Step(Now)} :
        /\ ~r.other
        /\ Commit(r, "Step", 0)
        /\ haltSeen' = (haltSeen \/ r.c.halted)

DoStepCycles ==
  /\ cpu.cycles < MaxCycles
  /\ \E budget \in Budgets :
       \E r \in {StepCycles(Now, budget)} :
          /\ ~r.other
          /\ Commit(r, "StepCycles", budget)
          /\ haltSeen' = (haltSeen \/ r.c.halted)

DoRequestInterrupt ==
  \E q \in Requests :
    \E r \in {RequestInterrupt(Now, q[1], q[2])} :
      /\ Commit(r, "RequestInterrupt", q)
      /\ UNCHANGED haltSeen

DoAddCycles ==
  /\ cpu.cycles + HoldCycles <= MaxCycles
  /\ \E r \in {AddCycles(Now, HoldCycles)} :
        /\ Commit(r, "AddCycles", HoldCycles)
        /\ UNCHANGED haltSeen

\* The host sets the CPU up on a CPU fresh from New or Reset, or to bring a
\* halted CPU back.
DoSetState ==
  /\ op \in {"New", "Reset"} \/ cpu.halted
  /\ \E regs \in States :
       \E r \in {SetState(Mach(cpu, Image), regs)} :
         /\ Commit(r, "SetState", 0)
         /\ haltSeen' = (haltSeen \/ cpu.halted)

Next ==
  \/ DoReset
  \/ DoStep
  \/ DoStepCycles
  \/ DoRequestInterrupt
  \/ DoAddCycles
  \/ DoSetState

Spec == Init /\ [][Next]_vars

\* ------------------------------------------- budgeted execution
\* The host drives the CPU in slices: budgets below, at and above the
\* cost of an instruction, so that deficits are paid down over several calls.
Slices == {0, SmallBudget, MaxBudget}

DoStepSlice ==
  /\ cpu.cycles < MaxCycles
  /\ \E budget \in Slices :
       \E r \in {StepCycles(Now, budget)} :
          /\ ~r.other
          /\ Commit(r, "StepCycles", budget)
          /\ haltSeen' = (haltSeen \/ r.c.halted)

NextBudget ==
  \/ DoStepSlice
  \/ DoRequestInterrupt
  \/ DoSetState

SpecBudget == Init /\ [][NextBudget]_vars

\* ------------------------------------------------ wide addresses
\* Register files whose PC, A0 and stack pointers have bits above bit 23 set.
WideStates ==
  { Regs(U32(4660), <<256, 8192>>, <<256, 4122>>, 9984, <<512, 24576>>, <<32512, 32768>>),  \* MOVEs, JMP
    Regs(U32(0), <<32512, 8192>>, <<32512, 4098>>, 8192, <<512, 24576>>, <<256, 32768>>),   \* TRAP #0
    Regs(U32(0), <<256, 8193>>, <<512, 4132>>, 0, <<512, 24576>>, <<32512, 32768>>) }       \* ILLEGAL in user mode

DoSetStateWide ==
  /\ op \in {"New", "Reset"} \/ cpu.halted
  /\ \E regs \in WideStates :
       \E r \in {SetState(Mach(cpu, Image), regs)} :
         /\ Commit(r, "SetState", 0)
         /\ haltSeen' = (haltSeen \/ cpu.halted)

NextAddress ==
  \/ DoStep
  \/ DoRequestInterrupt
  \/ DoSetStateWide

SpecAddress == Init /\ [][NextAddress]_vars

\* ----------------------------------------- privileged instructions
\* Register files that put the CPU at each privileged instruction of the
\* image, in user mode (with and without the trace bit) and, for MOVE USP,
\* in supervisor mode; the last one runs MOVE.W (A7)+,D0 in user mode first,
\* so that A[7] has left the value the USP field holds.
PrivilegedAt == {4100, 4102, 4106, 4112, 4114, 4118, 4136, 4144, 4146}
PrivilegedStates ==
  { Regs(U32(9984), U32(8192), U32(pc), sr, U32(24576), U32(32768)) :
      pc \in PrivilegedAt, sr \in {0, 32799} }
  \cup { Regs(U32(0), U32(8192), U32(4144), 8192, U32(24576), U32(32768)),
          Regs(U32(0), U32(8192), U32(4150), 0, U32(24576), U32(32768)) }

DoSetStatePrivileged ==
  /\ op \in {"New", "Reset"} \/ cpu.halted
  /\ \E regs \in PrivilegedStates :
       \E r \in {SetState(Mach(cpu, Image), regs)} :
         /\ Commit(r, "SetState", 0)
         /\ haltSeen' = (haltSeen \/ cpu.halted)

NextPrivilege ==
  \/ DoStep
  \/ DoRequestInterrupt
  \/ DoSetStatePrivileged

SpecPrivilege == Init /\ [][NextPrivilege]_vars

\* ------------------------------------------------- condition codes
\* The CPU is set up with every combination of the five CCR flags, in user
\* and in supervisor mode, and a condition code is evaluated on it, as the
\* handlers of Bcc, Scc and DBcc do. ret is 1 for true, 0 for false.
ConditionSRs == {hi + ccr : hi \in {0, 9984}, ccr \in 0..(2 * flagX - 1)}
Conditions == 0..15

InitCondition ==
  \E sr \in ConditionSRs :
    \E r \in {SetState(Mach(Reset(Mach(ZeroCPU, Image)).c, Image),
                        Regs(Zero32, Zero32, U32(4096), sr, U32(24576), U32(32768)))} :
      /\ cpu = r.c
      /\ mem = r.mem
      /\ tr = <<>>
      /\ sw = <<>>
      /\ svc = NoSvc
      /\ exc = NoExc
      /\ br = FALSE
      /\ ret = 0
      /\ op = "SetState"
      /\ arg = 0
      /\ haltSeen = FALSE

DoTestCondition ==
  \E cc \in Conditions :
    /\ Commit([Now EXCEPT !.ret = boolByte(testCondition(Now, cc))], "testCondition", cc)
    /\ UNCHANGED haltSeen

NextCondition == DoTestCondition

SpecCondition == InitCondition /\ [][NextCondition]_vars

\* ------------------------------------------- multi-precision addition
\* 0x1100: ADDX.B D1,D0; ADDX.W D3,D2; ADDX.L D5,D4; ADDX.B -(A1),-(A0); NOP
ADDXImage == WordsAt(4352, <<53505, 54595, 55685, 53513, 20081>>) @@ Image

\* Operand pairs <<destination, source>> of the three register additions and
\* the A1 of the memory addition, whose source byte is 0x00, 0xFF or 0x71.
ADDXBytes == { <<0, 0>>, <<255, 1>>, <<1, 1>>, <<255, 0>> }
ADDXWords == { <<0, 0>>, <<65535, 0>>, <<65535, 1>> }
ADDXLongs == { <<Zero32, Zero32>>, <<<<65535, 65535>>, Zero32>>, <<<<65535, 65535>>, <<0, 1>>>>,
               <<<<32768, 0>>, <<32768, 0>>>> }
ADDXSources == {8209, 4110, 4098}

\* The CPU at the first ADDX with X clear and Z set; D0 and D2 hold bits
\* above the operand width.
ADDXStates ==
  { [D |-> [n \in 0..7 |->
              CASE n = 0 -> <<4660, 22016 + b[1]>> [] n = 1 -> <<0, b[2]>>
                [] n = 2 -> <<4660, w[1]>> [] n = 3 -> <<0, w[2]>>
                [] n = 4 -> l[1] [] n = 5 -> l[2] [] OTHER -> Zero32],
     A |-> [n \in 0..7 |->
              CASE n = 0 -> U32(8193) [] n = 1 -> U32(a1) [] OTHER -> Zero32],
     PC |-> U32(4352), SR |-> sr, USP |-> U32(24576), SSP |-> U32(32768)] :
      b \in ADDXBytes, w \in ADDXWords, l \in ADDXLongs, a1 \in ADDXSources,
      sr \in {9984 + flagZ, 9984 + flagZ + flagN + flagV + flagC} }

DoSetStateADDX ==
  /\ op \in {"New", "Reset"} \/ cpu.halted
  /\ \E regs \in ADDXStates :
       \E r \in {SetState(Mach(cpu, ADDXImage), regs)} :
         /\ Commit(r, "SetState", 0)
         /\ haltSeen' = (haltSeen \/ cpu.halted)

NextADDX ==
  \/ DoStep
  \/ DoSetStateADDX

SpecADDX == Init /\ [][NextADDX]_vars

\* ------------------------------------------------ register write widths
\* 0x1200: MOVE.B D1,D0; MOVE.W D1,D2; ORI.B #$80,D3; MOVEA.W D1,A2; NOP
\* 0x1220: MOVEM.W (A0)+,D4/A4; MOVEM.W D4/A4,-(A1); NOP
\* 0x2000: the two words the MOVEM loads.
WidthImage(data) ==
  WordsAt(4608, <<4097, 13313, 3, 128, 13377, 20081>>) @@
  WordsAt(4640, <<19608, 4112, 18593, 2056, 20081>>) @@
  WordsAt(8192, data) @@ Image

WidthData == { <<32769, 32767>>, <<65535, 0>>, <<1, 65534>> }
WidthSources == { <<43981, 33023>>, <<1, 32513>>, <<65535, 0>> }
WidthUppers == {4660, 17185}
WidthEntries == {4608, 4640}

\* Every register written holds bits above the low word beforehand.
WidthStates ==
  { [D |-> [n \in 0..7 |-> IF n = 1 THEN d1 ELSE <<hi, 22136>>],
     A |-> [n \in 0..7 |->
              CASE n = 0 -> U32(8192) [] n = 1 -> U32(8448) [] n = 7 -> U32(32768)
                [] OTHER -> <<170, 21845>>],
     PC |-> U32(pc), SR |-> 9984, USP |-> U32(24576), SSP |-> U32(32768)] :
      d1 \in WidthSources, hi \in WidthUppers, pc \in WidthEntries }

DoSetStateWidth ==
  /\ op \in {"New", "Reset"} \/ cpu.halted
  /\ \E regs \in WidthStates, data \in WidthData :
       \E r \in {SetState(Mach(cpu, WidthImage(data)), regs)} :
         /\ Commit(r, "SetState", 0)
         /\ haltSeen' = (haltSeen \/ cpu.halted)

NextWidth ==
  \/ DoStep
  \/ DoSetStateWidth

SpecWidth == Init /\ [][NextWidth]_vars

\* ------------------------------------------------- instruction timing
\* 0x1300: TST.L (A0); AND.W (A0),D1; AND.L (A0),D1; NOT.W (A0);
\*         BTST D0,(A0); BTST D0,d16(A0); NOP, over the data at 0x2000.
TimingImage(data) ==
  WordsAt(4864, <<19088, 49744, 49808, 18000, 272, 296, 2, 20081>>) @@
  WordsAt(8192, data) @@ Image

DoSetStateTiming ==
  /\ op \in {"New", "Reset"} \/ cpu.halted
  /\ \E d0 \in {0, 3, 15}, d1 \in {Zero32, <<65535, 65535>>, <<4660, 255>>},
        data \in {<<0, 0>>, <<65535, 65535>>, <<33023, 1>>}, sr \in {9984, 9999} :
       \E r \in {SetState(Mach(cpu, TimingImage(data)),
                          [D |-> [n \in 0..7 |-> CASE n = 0 -> U32(d0) [] n = 1 -> d1
                                                   [] OTHER -> Zero32],
                           A |-> [n \in 0..7 |-> IF n = 0 THEN U32(8192) ELSE Zero32],
                           PC |-> U32(4864), SR |-> sr,
                           USP |-> U32(24576), SSP |-> U32(32768)])} :
         /\ Commit(r, "SetState", 0)
         /\ haltSeen' = (haltSeen \/ cpu.halted)

NextTiming ==
  \/ DoStep
  \/ DoSetStateTiming

SpecTiming == Init /\ [][NextTiming]_vars

\* --------------------------------------------------- counted loops
\* 0x1400: DBF D0,0x1400; NOP      0x1410: DBEQ D0,0x1410; NOP
\* 0x1420: DBNE D0,0x1426; NOP; NOP; NOP
LoopImage ==
  WordsAt(5120, <<20936, 65534, 20081>>) @@
  WordsAt(5136, <<22472, 65534, 20081>>) @@
  WordsAt(5152, <<22216, 4, 20081, 20081, 20081>>) @@ Image

\* The largest counter word a loop starts with, besides 0xFFFF.
MaxCount == 3

\* D0 is the loop counter, with or without bits above the low word; D7
\* keeps the counter word the loop starts with.
DoSetStateLoop ==
  /\ op \in {"New", "Reset"} \/ cpu.halted
  /\ \E n \in 0..MaxCount \cup {W16 - 1}, hi \in {0, 4660}, sr \in {9984, 9984 + flagZ},
        pc \in {5120, 5136, 5152} :
       \E r \in {SetState(Mach(cpu, LoopImage),
                          [D |-> [i \in 0..7 |-> CASE i = 0 -> <<hi, n>> [] i = 7 -> <<0, n>>
                                                   [] OTHER -> Zero32],
                           A |-> ZeroRegs, PC |-> U32(pc), SR |-> sr,
                           USP |-> U32(24576), SSP |-> U32(32768)])} :
         /\ Commit(r, "SetState", 0)
         /\ haltSeen' = (haltSeen \/ cpu.halted)

NextLoop ==
  \/ DoStep
  \/ DoSetStateLoop

\* The host keeps calling Step.
SpecLoop == Init /\ [][NextLoop]_vars /\ WF_vars(DoStep)

\* ------------------------------------------------ nested interrupts
\* Auto-vectors 25..31 point at a handler of NOPs at 0x3100, so that the
\* interrupt mask stays at the level serviced; vector 64 stays odd.
NestedImage ==
  WordsAt(100, <<0, 12544, 0, 12544, 0, 12544, 0, 12544, 0, 12544, 0, 12544, 0, 12544>>) @@
  WordsAt(12544, <<20081, 20081, 20081, 20081>>) @@ Image

\* Cycles after which the host stops stepping: room for three services.
NestedCycles == 100

\* The CPU at the NOP at 0x1000 in supervisor mode with mask 0.
DoSetStateNested ==
  /\ op \in {"New", "Reset"} \/ cpu.halted
  /\ \E r \in {SetState(Mach(cpu, NestedImage),
                        Regs(U32(0), U32(8192), U32(4096), 8192, U32(24576), U32(32768)))} :
       /\ Commit(r, "SetState", 0)
       /\ haltSeen' = (haltSeen \/ cpu.halted)

DoStepNested ==
  /\ cpu.cycles < NestedCycles
  /\ \E r \in {Step(Now)} :
        /\ ~r.other
        /\ Commit(r, "Step", 0)
        /\ haltSeen' = (haltSeen \/ r.c.halted)

DoRequestNested ==
  \E q \in {<<2, NoVec>>, <<3, NoVec>>, <<3, 64>>, <<4, NoVec>>, <<7, NoVec>>, <<MaxLevel, NoVec>>} :
    \E r \in {RequestInterrupt(Now, q[1], q[2])} :
      /\ Commit(r, "RequestInterrupt", q)
      /\ UNCHANGED haltSeen

NextNested ==
  \/ DoStepNested
  \/ DoRequestNested
  \/ DoSetStateNested

SpecNested == Init /\ [][NextNested]_vars

\* ------------------------------------------------ exception returns
\* The CPU at the TRAP #0 at 0x1002, whose handler at 0x3000 is an RTE, in
\* user and supervisor mode, with and without T, with every valid SR bit
\* and with all 16 bits set.
DoSetStateReturn ==
  /\ op \in {"New", "Reset"} \/ cpu.halted
  /\ \E sr \in {0, 31, 32768, 8192, 9984, 42783, 65535}, usp \in {24576, 20480} :
       \E r \in {SetState(Mach(cpu, Image),
                          Regs(U32(0), U32(8192), U32(4098), sr, U32(usp), U32(32768)))} :
         /\ Commit(r, "SetState", 0)
         /\ haltSeen' = (haltSeen \/ cpu.halted)

NextReturn ==
  \/ DoStep
  \/ DoRequestInterrupt
  \/ DoSetStateReturn

SpecReturn == Init /\ [][NextReturn]_vars

\* --------------------------------------------------- snapshot round trips
\* The host takes a snapshot of the CPU into a buffer of its own and, right
\* after, restores a CPU from that buffer, from a copy of it cut short, or
\* from a copy with another version byte. The CPU restored is the same CPU
\* or one fresh from New on the same bus. ret is 1 for an error, 0 for nil;
\* arg is the buffer after Serialize, the target and buffer of Deserialize.
BufferSizes == {cpuSerializeSize - 1, cpuSerializeSize, cpuSerializeSize + 1}
Blank(n) == [i \in 1..n |-> 170]
Fresh(memory) == Reset(Mach(ZeroCPU, memory)).c

SnapshotStates ==
  { Regs(U32(9216), U32(8192), U32(4102), 8960, U32(24576), U32(32768)),  \* STOP, mask 3
    Regs(U32(4660), U32(8193), U32(4122), 9984, U32(24576), U32(32768)),  \* MOVE.W, A0 odd
    Regs(U32(0), U32(8192), U32(4132), 0, U32(24576), U32(32768)) }       \* ILLEGAL in user mode

DoSetStateSnapshot ==
  /\ op \in {"New", "Reset"} \/ cpu.halted
  /\ \E regs \in SnapshotStates :
       \E r \in {SetState(Mach(cpu, Image), regs)} :
         /\ Commit(r, "SetState", 0)
         /\ haltSeen' = (haltSeen \/ cpu.halted)

DoSerialize ==
  /\ op # "Serialize"
  /\ \E n \in BufferSizes :
       \E r \in {Serialize(cpu, Blank(n))} :
         /\ Commit([Now EXCEPT !.ret = boolByte(r.err)], "Serialize", r.buf)
         /\ UNCHANGED haltSeen

DoDeserialize ==
  /\ op = "Serialize"
  /\ \E buf \in {arg, SubSeq(arg, 1, cpuSerializeSize - 1),
                  [arg EXCEPT ![1] = cpuSerializeVersion + 1]} :
     \E target \in {"self", "new"} :
       \E r \in {Deserialize(IF target = "self" THEN cpu ELSE Fresh(mem), buf)} :
         /\ Commit([Now EXCEPT !.c = r.c, !.ret = boolByte(r.err)],
                   "Deserialize", <<target, buf>>)
         /\ haltSeen' = (haltSeen \/ r.c.halted)

NextSnapshot ==
  \/ DoStepCycles
  \/ DoRequestInterrupt
  \/ DoSetStateSnapshot
  \/ DoSerialize
  \/ DoDeserialize

SpecSnapshot == Init /\ [][NextSnapshot]_vars
\* ============================================================ properties
StepOps == {"Step", "StepCycles"}
Issued(log) == {i \in DOMAIN log : log[i].issued}
SBit(sr) == BitAnd(sr, flagS) # 0
TBit(sr) == BitAnd(sr, flagT) # 0
IMask(sr) == (sr \div W8) % 8

\* ---- C1
\* C1: a Step or StepCycles call on a halted CPU returns 0, leaves every CPU
\* field as it was and reaches neither the bus nor its memory; this holds
\* with an interrupt of any level latched, so a RequestInterrupt on a halted
\* CPU never makes a later Step execute.
C1_HaltedStepDoesNothing ==
  [][(cpu.halted /\ op' \in StepOps)
       => (cpu' = cpu /\ ret' = 0 /\ tr' = <<>> /\ mem' = mem /\ ~svc'.on)]_vars

\* A Step found the CPU halted with a level-7 interrupt latched (a Step of a
\* running CPU consumes a latched level 7) and returned 0.
C1_Witness ==
  cpu.halted /\ op = "Step" /\ cpu.pendingIPL = 7 /\ ret = 0 /\ tr = <<>>

\* ---- C2
\* C2: a word or long readBus/writeBus call at an odd address, made while the
\* CPU is not halted, halts the CPU and issues no bus access, and a read gives
\* 0; every other call made while not halted (even address, or byte size at
\* any address) is issued on the bus at the masked address and does not halt.
C2_OddWordAccessHalts ==
  \A i \in DOMAIN tr :
    ~tr[i].hb =>
      IF tr[i].sz # Byte /\ IsOdd(tr[i].addr)
        THEN /\ ~tr[i].issued
             /\ tr[i].ha
             /\ cpu.halted
             /\ tr[i].rw = "R" => tr[i].val = Zero32
        ELSE /\ tr[i].issued
             /\ ~tr[i].ha
             /\ tr[i].bus = Addr24(tr[i].addr)

\* An instruction's word read at an odd address was refused and halted the CPU.
C2_Witness ==
  \E i \in DOMAIN tr :
    /\ tr[i].rw = "R" /\ tr[i].sz = Word /\ IsOdd(tr[i].addr)
    /\ ~tr[i].hb /\ ~tr[i].issued /\ tr[i].val = Zero32
    /\ cpu.halted /\ op = "Step"

\* ---- C3
\* C3 (as amended): no bus access is issued while halted is true: none in the
\* rest of the sequence that set it, and none by a Step or StepCycles call
\* that finds it set.  Reset and SetState clear halted.
C3_NoBusWhileHalted ==
  [][/\ \A i \in DOMAIN tr' : tr'[i].hb => (~tr'[i].issued /\ tr'[i].ha)
     /\ \A i \in DOMAIN tr' : (i > 1 /\ tr'[i - 1].ha) => tr'[i].hb
     /\ (cpu.halted /\ op' \in StepOps) => (Issued(tr') = {} /\ mem' = mem)]_vars

\* A sequence went on after it halted the CPU: a later request was refused.
C3_Witness ==
  \E i \in DOMAIN tr : i > 1 /\ ~tr[i - 1].hb /\ tr[i - 1].ha /\ tr[i].hb /\ ~tr[i].issued

\* C3 as stated: once halted has been true, no Step or StepCycles call issues
\* a bus access until Reset is called.
C3_NoBusUntilReset ==
  [][(haltSeen /\ op' \in StepOps) => Issued(tr') = {}]_vars

\* ---- C4
\* C4 (as amended): halted, once true, stays true across Step, StepCycles,
\* RequestInterrupt and AddCycles; Reset and SetState both clear it.
C4_HaltedSticky ==
  [][/\ (cpu.halted /\ op' \in StepOps \cup {"RequestInterrupt", "AddCycles"}) => cpu'.halted
     /\ op' \in {"Reset", "SetState"} => ~cpu'.halted]_vars

\* A halted CPU was handed a level-7 interrupt request and is still halted.
C4_Witness ==
  cpu.halted /\ op = "RequestInterrupt" /\ arg[1] = 7 /\ cpu.pendingIPL = 7

\* C4 as stated: once halted has been true it stays true until Reset.
C4_OnlyResetClears == haltSeen => cpu.halted

\* ---- C5
\* C5 as stated: in every reachable state SR has no bit outside 0xA71F.
C5_SRMasked == BitAnd(cpu.SR, W16 - 1 - SRMask) = 0
\* ---- C6
\* An SR write e of the log leaves supervisor mode, enters it, keeps the mode.
LeavesSupervisor(e) == SBit(e.b.SR) /\ ~SBit(e.a.SR)
EntersSupervisor(e) == ~SBit(e.b.SR) /\ SBit(e.a.SR)

\* C6: every SR write that changes S (setSR, exception entry, interrupt
\* entry) saves the A7 of before into the shadow of the mode it leaves and
\* loads A7 from the shadow of the mode it enters, the other shadow staying as
\* it was; an SR write that keeps S leaves A7, USP and SSP alone.
C6_SwapOnModeChange ==
  \A i \in DOMAIN sw :
    /\ LeavesSupervisor(sw[i]) =>
         (sw[i].a.SSP = sw[i].b.A7 /\ sw[i].a.A7 = sw[i].b.USP /\ sw[i].a.USP = sw[i].b.USP)
    /\ EntersSupervisor(sw[i]) =>
         (sw[i].a.USP = sw[i].b.A7 /\ sw[i].a.A7 = sw[i].b.SSP /\ sw[i].a.SSP = sw[i].b.SSP)
    /\ (SBit(sw[i].a.SR) = SBit(sw[i].b.SR)) =>
         (sw[i].a.A7 = sw[i].b.A7 /\ sw[i].a.USP = sw[i].b.USP /\ sw[i].a.SSP = sw[i].b.SSP)

\* One Step entered supervisor mode (an interrupt or exception entry) and
\* left it again (setSR), each time with A7 different from the shadow loaded.
C6_Witness ==
  \E i, j \in DOMAIN sw :
    /\ EntersSupervisor(sw[i]) /\ sw[i].b.A7 # sw[i].b.SSP
    /\ LeavesSupervisor(sw[j]) /\ sw[j].b.A7 # sw[j].b.USP

\* ---- C7
\* The shadow field of the active mode, of the inactive mode.
ActiveShadow(c) == IF SBit(c.SR) THEN c.SSP ELSE c.USP
InactiveShadow(c) == IF SBit(c.SR) THEN c.USP ELSE c.SSP
ModeKept(log) == \A i \in DOMAIN log : SBit(log[i].a.SR) = SBit(log[i].b.SR)

Serviceable(c) ==
  c.pendingIPL > 0 /\ (c.pendingIPL > IMask(c.SR) \/ c.pendingIPL = 7)
\* The calls that run the top of Step: Step, and StepCycles with no deficit.
RunsStep(c, name) == ~c.halted /\ (name = "Step" \/ (name = "StepCycles" /\ c.deficit = 0))

\* C8: a Step of a CPU that is not halted services the latched interrupt if
\* and only if pendingIPL > 0 and (pendingIPL > SR mask or pendingIPL = 7).
C8_ServicedIffAboveMask ==
  [][RunsStep(cpu, op') => (svc'.on <=> Serviceable(cpu))]_vars

\* A level-7 interrupt was serviced with the SR mask at 7.
C8_Witness ==
  svc.on /\ svc.pre.pendingIPL = 7 /\ IMask(svc.pre.SR) = 7

\* ---- C9
Max(a, b) == IF a >= b THEN a ELSE b

\* C9: RequestInterrupt(level, vector) leaves pendingIPL at the maximum of its
\* old value and level, replaces pendingVec by vector exactly when level is
\* greater than the old pendingIPL, and changes no other field.
C9_RequestRecordedIffHigher ==
  [][op' = "RequestInterrupt" =>
       /\ cpu'.pendingIPL = Max(cpu.pendingIPL, arg'[1])
       /\ cpu'.pendingVec = IF arg'[1] > cpu.pendingIPL THEN arg'[2] ELSE cpu.pendingVec
       /\ arg'[1] <= cpu.pendingIPL => cpu' = cpu
       /\ [cpu' EXCEPT !.pendingIPL = cpu.pendingIPL, !.pendingVec = cpu.pendingVec] = cpu]_vars

\* A request at level 3 without vector met a latched level 3 with vector 64 and
\* left it.
C9_Witness ==
  op = "RequestInterrupt" /\ arg = <<3, NoVec>> /\ cpu.pendingIPL = 3 /\ cpu.pendingVec = 64

\* ---- C10
\* The supervisor stack pointer of CPU c.
SupervisorSP(c) == IF SBit(c.SR) THEN c.A[7] ELSE c.SSP
\* The vector number an interrupt service of the latched request uses.
ServiceVector(c) == IF c.pendingVec # NoVec THEN c.pendingVec ELSE 24 + c.pendingIPL

\* What C10 states of every interrupt service but the new PC.
ServiceFrame ==
  /\ svc.post.A[7] = Add32(SupervisorSP(svc.pre), -6)
  /\ svc.frameSR = <<0, svc.pre.SR>>
  /\ svc.framePC = svc.pre.PC
  /\ SBit(svc.post.SR) /\ ~TBit(svc.post.SR)
  /\ IMask(svc.post.SR) = svc.pre.pendingIPL
  /\ svc.post.SR % W8 = svc.pre.SR % W8
  /\ svc.post.pendingIPL = 0 /\ svc.post.pendingVec = NoVec /\ ~svc.post.stopped
  /\ svc.vectorNum = ServiceVector(svc.pre)
  /\ svc.post.cycles = svc.pre.cycles + 44
  /\ ~svc.post.halted

\* C10 (as amended): servicing a latched interrupt of level L in 1..7 with an
\* even supervisor stack pointer pushes PC then the old SR, sets S, clears T,
\* sets the mask to L, clears pendingIPL, pendingVec and stopped, adds 44
\* cycles, and sets PC to the long at 4*v when that long is not zero and to
\* the long at the spurious-interrupt vector (0x60) when it is zero.
C10_InterruptService ==
  (svc.on /\ ~IsOdd(SupervisorSP(svc.pre)) /\ svc.pre.pendingIPL \in 1..7)
    => /\ ServiceFrame
       /\ svc.post.PC = IF svc.entry # Zero32 THEN svc.entry ELSE svc.spurious

\* A level-3 interrupt with vector 64 was serviced from user mode.
C10_Witness ==
  /\ svc.on /\ ~IsOdd(SupervisorSP(svc.pre)) /\ svc.pre.pendingIPL = 3
  /\ svc.pre.pendingVec = 64 /\ ~SBit(svc.pre.SR) /\ svc.entry # Zero32
  /\ svc.post.PC = svc.entry

\* C10 as stated: every interrupt service with an even supervisor stack
\* pointer sets PC to the long at 4*v.
C10_PCFromVector ==
  (svc.on /\ ~IsOdd(SupervisorSP(svc.pre)) /\ svc.pre.pendingIPL \in 1..7)
    => (ServiceFrame /\ svc.post.PC = svc.entry)
\* ---- C11
HostOps == StepOps \cup {"RequestInterrupt", "AddCycles"}

\* C11 (as amended): across Step, StepCycles, RequestInterrupt and AddCycles
\* pendingIPL never decreases unless the call serviced the latched interrupt:
\* a Step, StepCycles or AddCycles call that services nothing leaves
\* pendingIPL and pendingVec as they were, and a service leaves pendingIPL at
\* 0.  Reset and SetState clear the latch without servicing it.
C11_LatchKeptUntilServiced ==
  [][/\ (op' \in HostOps /\ ~svc'.on) => cpu'.pendingIPL >= cpu.pendingIPL
     /\ (op' \in StepOps \cup {"AddCycles"} /\ ~svc'.on)
          => (cpu'.pendingIPL = cpu.pendingIPL /\ cpu'.pendingVec = cpu.pendingVec)
     /\ svc'.on => (op' \in StepOps /\ cpu'.pendingIPL = 0 /\ cpu'.pendingVec = NoVec)
     /\ op' \in {"Reset", "SetState"} => (cpu'.pendingIPL = 0 /\ cpu'.pendingVec = NoVec)]_vars

\* A Step executed an instruction while the SR mask blocked the latched level
\* 3 with vector 64, and the latch is as it was.
C11_Witness ==
  /\ op = "Step" /\ ret > 0 /\ ~svc.on /\ ~cpu.halted
  /\ cpu.pendingIPL = 3 /\ cpu.pendingVec = 64 /\ IMask(cpu.SR) >= 3

\* C11 as stated: pendingIPL decreases only in an operation that services the
\* latched interrupt.
C11_ClearedOnlyByService ==
  [][cpu'.pendingIPL < cpu.pendingIPL => svc'.on]_vars

\* ---- C12
\* C12 as stated: pendingIPL is within 0..7 in every reachable state.
C12_LevelInRange == cpu.pendingIPL \in 0..7

\* ---- C13
\* C13 (as amended): when an interrupt is serviced with an even supervisor
\* stack pointer and the long at its vector entry is zero, PC is set to the
\* long at the spurious-interrupt vector (24, address 0x60), whatever the
\* uninitialized-interrupt vector holds; the CPU does not halt, also when the
\* spurious-interrupt entry is zero too, and the 44 cycles are added.
C13_ZeroVectorTakesSpurious ==
  (svc.on /\ ~IsOdd(SupervisorSP(svc.pre)) /\ svc.entry = Zero32)
    => /\ svc.post.PC = svc.spurious
       /\ ~svc.post.halted
       /\ svc.post.cycles = svc.pre.cycles + 44

\* An interrupt was serviced with its vector entry and the spurious-interrupt
\* entry both zero and the uninitialized-interrupt entry not: PC is 0 and the
\* CPU runs.
C13_Witness ==
  /\ svc.on /\ ~IsOdd(SupervisorSP(svc.pre))
  /\ svc.entry = Zero32 /\ svc.spurious = Zero32 /\ svc.uninit # Zero32
  /\ svc.post.PC = Zero32 /\ ~svc.post.halted

\* C13 as stated: with a zero vector entry the service takes the
\* uninitialized-interrupt vector (15), and halts when that is zero too.
C13_ZeroVectorTakesUninitialized ==
  (svc.on /\ ~IsOdd(SupervisorSP(svc.pre)) /\ svc.entry = Zero32)
    => IF svc.uninit = Zero32 THEN svc.post.halted
       ELSE svc.post.PC = svc.uninit /\ ~svc.post.halted

\* ---- C14
\* The opcode fetch of the last operation was made at address a.
FetchedAt(a) ==
  \E i \in DOMAIN tr :
    /\ tr[i].rw = "R" /\ tr[i].sz = Word /\ tr[i].issued
    /\ tr[i].addr = a /\ tr[i].val = <<0, cpu.ir>>

\* What C14 states of every exception but the new PC and the cycles.
ExceptionFrame ==
  /\ exc.post.A[7] = Add32(SupervisorSP(exc.pre), -6)
  /\ exc.frameSR = <<0, exc.pre.SR>>
  /\ exc.framePC = IF exc.vector \in {4, 8, 10, 11} THEN exc.pre.prevPC ELSE exc.pre.PC
  /\ FetchedAt(exc.pre.prevPC)
  /\ exc.vector \in 32..47 => exc.pre.PC = Add32(exc.pre.prevPC, 2)
  /\ SBit(exc.post.SR) /\ ~TBit(exc.post.SR)
  /\ IMask(exc.post.SR) = IMask(exc.pre.SR)
  /\ exc.post.SR % W8 = exc.pre.SR % W8

\* C14 (as amended): exception(vector) with an even supervisor stack pushes
\* the SR of before at the new A7 and, at A7+2, prevPC (the address the
\* opcode was fetched from) for vectors 4, 8, 10 and 11 and the current PC
\* for every other vector; S is set, T cleared, the mask unchanged; when the
\* vector's entry is not zero PC is that entry and 34 cycles are added.
C14_ExceptionFrame ==
  (exc.on /\ ~IsOdd(SupervisorSP(exc.pre)))
    => /\ ExceptionFrame
       /\ exc.entry # Zero32 =>
            (exc.post.PC = exc.entry /\ exc.post.cycles = exc.pre.cycles + 34
               /\ ~exc.post.halted)

\* A privilege violation (vector 8) raised in user mode stacked the address
\* of the faulting instruction and entered the handler.
C14_Witness ==
  /\ exc.on /\ exc.vector = 8 /\ ~SBit(exc.pre.SR) /\ ~IsOdd(exc.pre.SSP)
  /\ exc.framePC = exc.pre.prevPC /\ exc.pre.prevPC # exc.pre.PC
  /\ exc.entry # Zero32 /\ exc.post.PC = exc.entry

\* C14 as stated: every exception with an even supervisor stack sets PC to
\* the vector's entry and adds 34 cycles.
C14_PCFromVectorEntry ==
  (exc.on /\ ~IsOdd(SupervisorSP(exc.pre)))
    => /\ ExceptionFrame
       /\ exc.post.PC = exc.entry /\ exc.post.cycles = exc.pre.cycles + 34

\* ---- C15
\* C15: in exception(vector), run with an even supervisor stack, when the
\* long at 4*vector is zero the handler address is the long at 0x3C (vector
\* 15): when that is zero too the CPU halts, with PC and cycles as they were,
\* and otherwise PC is set to it and 34 cycles are added.
C15_ZeroVectorFallback ==
  (exc.on /\ ~IsOdd(SupervisorSP(exc.pre)) /\ exc.entry = Zero32)
    => IF exc.uninit = Zero32
         THEN /\ exc.post.halted
              /\ exc.post.PC = exc.pre.PC
              /\ exc.post.cycles = exc.pre.cycles
         ELSE /\ ~exc.post.halted
              /\ exc.post.PC = exc.uninit
              /\ exc.post.cycles = exc.pre.cycles + 34

\* A line-A exception found its vector entry and vector 15 both zero and
\* halted the CPU.
C15_Witness ==
  /\ exc.on /\ exc.vector = vecLineA /\ ~IsOdd(SupervisorSP(exc.pre))
  /\ exc.entry = Zero32 /\ exc.uninit = Zero32 /\ cpu.halted /\ op \in StepOps

\* ---- C16
\* C16: an exception or interrupt entered with an odd supervisor stack
\* pointer halts the CPU and writes nothing to the bus: both pushes of the
\* frame are refused.
C16_OddStackHalts ==
  /\ (exc.on /\ IsOdd(SupervisorSP(exc.pre))) => (exc.post.halted /\ ~exc.wrote /\ cpu.halted)
  /\ (svc.on /\ IsOdd(SupervisorSP(svc.pre))) => (svc.post.halted /\ ~svc.wrote /\ cpu.halted)
  /\ ((exc.on /\ IsOdd(SupervisorSP(exc.pre))) \/ (svc.on /\ IsOdd(SupervisorSP(svc.pre))))
       => \A i \in DOMAIN tr : tr[i].rw = "W" => ~tr[i].issued

\* A privilege violation raised in user mode switched to an odd supervisor
\* stack: both pushes were requested and refused.
C16_Witness ==
  /\ exc.on /\ ~SBit(exc.pre.SR) /\ IsOdd(exc.pre.SSP) /\ cpu.halted
  /\ Cardinality({i \in DOMAIN tr : tr[i].rw = "W" /\ ~tr[i].issued}) = 2

\* ---- C17
\* PC when Step reaches its fetch: the handler address after an interrupt
\* service (sv the record of the service), the PC of before otherwise.
FetchTimePC(c, sv) == IF sv.on THEN sv.post.PC ELSE c.PC
\* The bus requests an interrupt service made (none without a service).
ServiceRequests(sv) == IF sv.on THEN sv.nreq ELSE 0

\* C17: no word is read from an odd address; a Step of a running CPU that
\* finds PC odd at fetch time halts, makes no bus request for an instruction,
\* leaves PC and prevPC alone and returns 0; and when such a Step ends with
\* PC odd, whatever the instruction (jump, return, exception vector), the CPU
\* is halted.
C17_NoFetchFromOddPC ==
  [][/\ \A i \in DOMAIN tr' :
          (tr'[i].issued /\ tr'[i].sz # Byte) => ~IsOdd(tr'[i].addr)
     /\ (RunsStep(cpu, op') /\ ~cpu.stopped) =>
          /\ IsOdd(FetchTimePC(cpu, svc')) =>
               /\ cpu'.halted /\ ret' = 0
               /\ Len(tr') = ServiceRequests(svc')
               /\ cpu'.PC = FetchTimePC(cpu, svc')
               /\ cpu'.prevPC = cpu.prevPC /\ cpu'.ir = cpu.ir
          /\ IsOdd(cpu'.PC) => cpu'.halted]_vars

\* A Step executed JMP (A0) to an odd address and left the CPU halted.
C17_Witness ==
  /\ op = "Step" /\ cpu.halted /\ IsOdd(cpu.PC) /\ cpu.ir = 20176 /\ ret > 0
  /\ FetchedAt(cpu.prevPC)

\* ---- C18
\* The running Step that ended in CPU c with bus log `log` executed opcode w.
ExecutedOpcode(c, log, w) ==
  /\ c.ir = w
  /\ \E i \in DOMAIN log :
       /\ log[i].rw = "R" /\ log[i].sz = Word /\ log[i].issued
       /\ log[i].addr = c.prevPC /\ log[i].val = <<0, w>>
\* The handler address an interrupt service takes from the vector table.
HandlerAddress(sv) == IF sv.entry # Zero32 THEN sv.entry ELSE sv.spurious

\* C18: a STOP executed in supervisor mode leaves stopped true; a Step of a
\* stopped CPU with no acceptable interrupt latched returns 4, adds 4 cycles,
\* makes no bus request and changes nothing else; a Step of a stopped CPU
\* with an acceptable interrupt latched services it, clears stopped and (the
\* supervisor stack being even) leaves PC at the handler address.
C18_StoppedUntilInterrupt ==
  [][/\ (RunsStep(cpu, op') /\ ~cpu.stopped /\ ExecutedOpcode(cpu', tr', 20082)
           /\ SBit(IF svc'.on THEN svc'.post.SR ELSE cpu.SR))
          => cpu'.stopped
     /\ (RunsStep(cpu, op') /\ cpu.stopped /\ ~Serviceable(cpu))
          => /\ ret' = 4 /\ tr' = <<>> /\ mem' = mem /\ ~svc'.on /\ ~exc'.on
             /\ cpu' = [cpu EXCEPT !.cycles = cpu.cycles + 4]
     /\ (RunsStep(cpu, op') /\ cpu.stopped /\ Serviceable(cpu))
          => /\ svc'.on /\ ~cpu'.stopped /\ cpu'.pendingIPL = 0
             /\ ~IsOdd(SupervisorSP(cpu)) => cpu'.PC = HandlerAddress(svc')]_vars

\* A stopped CPU idled through at least one Step, then a Step serviced a
\* level-7 interrupt and left PC at the handler.
C18_Witness ==
  /\ op = "Step" /\ svc.on /\ svc.pre.stopped /\ svc.pre.pendingIPL = 7
  /\ svc.pre.cycles >= 12 /\ ~cpu.stopped /\ cpu.PC = svc.entry /\ svc.entry # Zero32

\* ---- C19
\* C19 as stated: every Step returns the cycles it consumed, Cycles() after
\* the call minus Cycles() before it.
C19_StepReturnsCycles ==
  [][op' = "Step" => ret' = cpu'.cycles - cpu.cycles]_vars

Min(a, b) == IF a <= b THEN a ELSE b
SameButDeficit(c, d) == [c EXCEPT !.deficit = 0] = [d EXCEPT !.deficit = 0]

\* C21 (as amended): on a CPU that is not halted, StepCycles(budget) with
\* budget >= 0 called while deficit > 0 executes no instruction and services
\* no interrupt: it returns min(budget, deficit), reduces deficit by exactly
\* the returned amount, and leaves every other CPU field, the pending
\* interrupt and the bus untouched.
C21_DeficitPaidFirst ==
  [][(op' = "StepCycles" /\ ~cpu.halted /\ cpu.deficit > 0 /\ arg' >= 0)
       => /\ ret' = Min(arg', cpu.deficit)
          /\ cpu'.deficit = cpu.deficit - ret'
          /\ SameButDeficit(cpu', cpu)
          /\ tr' = <<>> /\ svc' = NoSvc /\ exc' = NoExc /\ mem' = mem]_vars

\* A partial payment: the budget is below the deficit, an interrupt above
\* the mask is pending and stays pending.
C21_Witness ==
  /\ op = "StepCycles" /\ arg = SmallBudget /\ ret = SmallBudget
  /\ cpu.deficit > 0 /\ ~cpu.halted
  /\ Serviceable(cpu) /\ svc = NoSvc /\ tr = <<>>

\* C21 as stated, halted CPUs included: whenever deficit > 0 the call
\* returns min(budget, deficit) and reduces the deficit by it.
C21_PaidEvenWhenHalted ==
  [][(op' = "StepCycles" /\ cpu.deficit > 0 /\ arg' >= 0)
       => /\ ret' = Min(arg', cpu.deficit)
          /\ cpu'.deficit = cpu.deficit - ret']_vars

\* C22: StepCycles(budget) with deficit = 0 on a CPU that is not halted
\* runs exactly one Step(); when that step's cost is at most the budget it
\* returns the cost and leaves deficit 0, otherwise it returns the budget
\* and sets deficit to cost - budget.
C22_OneStepThenExcess ==
  [][(op' = "StepCycles" /\ ~cpu.halted /\ cpu.deficit = 0)
       => \E s \in {Step(Now)} :
            /\ SameButDeficit(cpu', s.c)
            /\ mem' = s.mem /\ tr' = s.tr /\ svc' = s.svc /\ exc' = s.exc
            /\ IF s.ret <= arg'
                 THEN ret' = s.ret /\ cpu'.deficit = 0
                 ELSE ret' = arg' /\ cpu'.deficit = s.ret - arg']_vars

\* An instruction that costs more than the budget has run: its bus
\* requests are logged and the excess is owed.
C22_Witness ==
  /\ op = "StepCycles" /\ arg = SmallBudget /\ ret = SmallBudget
  /\ tr # <<>> /\ cpu.deficit = cpu.cycles - SmallBudget /\ cpu.deficit > 0

\* C23: after Reset() (and so after New), whatever the state before:
\* SR = 0x2700, Cycles() = 0, Deficit() = 0, halted and stopped are false,
\* A[7] and SSP equal the long read from bus address 0, and PC equals the
\* long read from bus address 4.
C23_ResetState ==
  op \in {"New", "Reset"} =>
    /\ cpu.SR = 9984 /\ cpu.cycles = 0 /\ cpu.deficit = 0
    /\ ~cpu.halted /\ ~cpu.stopped
    /\ cpu.A[7] = BusRead(mem, Long, 0) /\ cpu.SSP = BusRead(mem, Long, 0)
    /\ cpu.PC = BusRead(mem, Long, 4)
    /\ [i \in DOMAIN tr |-> <<tr[i].rw, tr[i].sz, tr[i].bus>>]
         = << <<"R", Long, 0>>, <<"R", Long, 4>> >>

\* A Reset has read the two vectors and loaded SSP 0x8000 and PC 0x1000.
C23_Witness ==
  /\ op = "Reset" /\ Len(tr) = 2
  /\ cpu.SSP = U32(32768) /\ cpu.A[7] = U32(32768) /\ cpu.PC = U32(4096)
  /\ cpu.SR = 9984

SnapshotFailed(buf) ==
  Len(buf) < cpuSerializeSize \/ buf[1] # cpuSerializeVersion
Target(name) == IF name = "self" THEN cpu ELSE Fresh(mem)

C25_RefusesBadBuffer ==
  [][((op' = "Serialize" /\ Len(arg') < cpuSerializeSize)
        => (ret' = 1 /\ arg' = Blank(Len(arg')) /\ cpu' = cpu))
     /\ ((op' = "Deserialize" /\ SnapshotFailed(arg'[2]))
        => (ret' = 1 /\ cpu' = Target(arg'[1]) /\ mem' = mem))]_vars

\* A snapshot with version byte 2 has been refused by a CPU fresh from New
\* while the CPU it was taken from had run.
C25_Witness ==
  /\ op = "Deserialize" /\ ret = 1 /\ arg[1] = "new"
  /\ Len(arg[2]) = cpuSerializeSize /\ arg[2][1] # cpuSerializeVersion
  /\ Uint64(arg[2], 81) > 0
  /\ cpu = Fresh(mem)

\* The calls the host makes after a restore.
NextCalls(c, memory) ==
  {Step(Mach(c, memory))}
    \cup {StepCycles(Mach(c, memory), b) : b \in Slices}
    \cup {RequestInterrupt(Mach(c, memory), q[1], q[2]) : q \in Requests}
AfterCalls(c, memory) ==
  {Step(m) : m \in NextCalls(c, memory)}

ServiceStart(c) == c.cycles + (IF c.stopped THEN 4 ELSE 0)
InstructionStart(c, sv) == IF sv.on THEN sv.post.cycles ELSE c.cycles

\* C27 (as amended): with a cycle-timestamp bus, every bus access of the
\* instruction a Step() executes carries the same timestamp, the cycle count
\* at the start of that instruction: Cycles() when Step() was called, plus
\* the 44 cycles of an interrupt serviced first by the same call. The
\* accesses of the interrupt service carry the cycle count at which the
\* service began: Cycles() at the call, plus 4 when the CPU was stopped.
\* The accesses of Reset() carry timestamp 0.
C27_StampsAtStart ==
  [][((op' = "Reset") => \A i \in Issued(tr') : tr'[i].cyc = 0)
     /\ ((op' \in StepOps /\ RunsStep(cpu, op'))
          => /\ svc'.on /\ ~cpu'.halted => svc'.post.cycles = ServiceStart(cpu) + 44
             /\ \A i \in Issued(tr') :
                   tr'[i].cyc = IF i <= ServiceRequests(svc')
                                  THEN ServiceStart(cpu)
                                  ELSE InstructionStart(cpu, svc'))]_vars

\* A Step has serviced an interrupt and then run an instruction: the frame
\* pushes carry one timestamp and the instruction fetch a later one.
C27_Witness ==
  /\ op = "Step" /\ svc.on /\ ~cpu.halted
  /\ \E i \in Issued(tr) : i <= svc.nreq /\ tr[i].rw = "W" /\ tr[i].cyc = svc.pre.cycles
  /\ \E i \in Issued(tr) : i > svc.nreq /\ tr[i].cyc = svc.pre.cycles + 44

\* C27 as stated: every bus access issued during one Step() carries
\* Cycles() at the moment Step() was called.
C27_StampsAtStepCall ==
  [][(op' \in StepOps /\ RunsStep(cpu, op'))
       => \A i \in Issued(tr') : tr'[i].cyc = cpu.cycles]_vars

\* C28: every address passed to the bus is below 2^24: the CPU's address
\* masked with 0xFFFFFF.
C28_AddressesMasked ==
  \A i \in Issued(tr) :
    /\ tr[i].bus \in 0..(W8 * W16 - 1)
    /\ tr[i].bus = (tr[i].addr[1] % W8) * W16 + tr[i].addr[2]

\* A write and a read have been made through addresses of 2^24 or above.
C28_Witness ==
  /\ \E i \in Issued(tr) : tr[i].rw = "W" /\ tr[i].addr[1] >= W8
  /\ \E i \in Issued(tr) : tr[i].rw = "R" /\ tr[i].addr[1] >= W8

PrivilegedHandlers ==
  {"STOP", "RESET", "RTE", "MOVEtoSR", "MOVEtoUSP", "MOVEfromUSP",
   "ANDItoSR", "ORItoSR", "EORItoSR"}

\* The last operation fetched a privileged instruction at the PC it started
\* from, with the CPU c in user mode and no interrupt serviced first.
UserRunsPrivileged(c, log, sv, after) ==
  /\ ~SBit(c.SR) /\ ~sv.on /\ log # <<>>
  /\ log[1].issued /\ log[1].addr = c.PC
  /\ Handler(after.ir) \in PrivilegedHandlers

\* C29: in user mode the privileged instructions STOP, RESET, RTE, MOVE to
\* SR, MOVE to/from USP and ANDI/ORI/EORI to SR take the privilege
\* violation exception (vector 8) with the faulting instruction's own
\* address as the pushed PC and do not perform their effect: stopped stays
\* false, Bus.Reset() is not called, the instruction writes neither USP nor
\* a destination register (when the exception begins the CPU differs from
\* the CPU before the Step by the opcode fetch alone; the exception then
\* saves the user A[7] in USP as every entry to supervisor mode does), no
\* operand is fetched, and the SR pushed is the unmodified user-mode SR.
\* (Checked for an even supervisor stack.)
C29_PrivilegeViolation ==
  [][(op' = "Step" /\ ~cpu.halted /\ ~IsOdd(cpu.SSP)
        /\ UserRunsPrivileged(cpu, tr', svc', cpu'))
       => /\ exc'.on /\ exc'.vector = vecPrivilegeViolation
          /\ exc'.pre = [cpu EXCEPT !.PC = Add32(cpu.PC, 2), !.prevPC = cpu.PC,
                                    !.ir = cpu'.ir, !.IR = cpu'.ir]
          /\ exc'.framePC = cpu.PC /\ exc'.frameSR = <<0, cpu.SR>>
          /\ ~cpu'.stopped /\ ~br'
          /\ cpu'.USP = cpu.A[7]
          /\ cpu'.D = cpu.D /\ \A n \in 0..6 : cpu'.A[n] = cpu.A[n]
          /\ cpu'.A[7] = Add32(cpu.SSP, -6) /\ cpu'.SSP = cpu.SSP
          /\ cpu'.SR = BitClear(BitOr(cpu.SR, flagS), flagT)
          /\ cpu'.PC = exc'.entry /\ cpu'.cycles = cpu.cycles + 34
          /\ Len(tr') = 4 /\ ret' = 34]_vars

\* MOVE A0,USP has been refused in user mode, after the user program moved
\* A[7]: USP holds the user A[7], not A0.
C29_Witness ==
  /\ op = "Step" /\ exc.on /\ exc.vector = vecPrivilegeViolation
  /\ Handler(cpu.ir) = "MOVEtoUSP" /\ ~SBit(exc.pre.SR)
  /\ cpu.A[0] # cpu.USP /\ exc.pre.USP # exc.pre.A[7]
  /\ cpu.USP = exc.pre.A[7] /\ exc.framePC = U32(4152)

\* The value testCondition(cc) returned, for a state it was applied in.
Holds(cc) == testCondition(Now, cc)

\* C30: the condition codes come in complementary pairs. For every SR,
\* NE = not EQ, CC = not CS, VC = not VS, PL = not MI, GE = not LT,
\* GT = not LE and HI = not LS; T is always true and F always false.
C30_ComplementaryPairs ==
  /\ Holds(0) /\ ~Holds(1)
  /\ Holds(2) = ~Holds(3)
  /\ Holds(4) = ~Holds(5)
  /\ Holds(6) = ~Holds(7)
  /\ Holds(8) = ~Holds(9)
  /\ Holds(10) = ~Holds(11)
  /\ Holds(12) = ~Holds(13)
  /\ Holds(14) = ~Holds(15)
  /\ op = "testCondition" /\ arg % 2 = 0 => ret = 1 - boolByte(Holds(arg + 1))
  /\ op = "testCondition" /\ arg % 2 = 1 => ret = 1 - boolByte(Holds(arg - 1))

\* LE has been evaluated with N = V and Z set: it is true, and GT false.
C30_Witness ==
  /\ op = "testCondition" /\ arg = 15 /\ ret = 1
  /\ BitAnd(cpu.SR, flagZ) # 0
  /\ BitAnd(cpu.SR, flagN) # 0 /\ BitAnd(cpu.SR, flagV) # 0

\* The masked result the j-th ADDX of the sequence left in its destination.
ADDXResultZero(j) ==
  CASE j = 1 -> cpu.D[0][2] % W8 = 0
    [] j = 2 -> cpu.D[2][2] = 0
    [] j = 3 -> cpu.D[4] = Zero32
    [] OTHER -> MemByte(mem, 8192) = 0
ZSet(sr) == BitAnd(sr, flagZ) # 0

\* C31: ADDX only ever clears Z, never sets it. After the first k
\* instructions of a sequence of ADDX started with X = 0 and Z = 1, Z is 1
\* if and only if the masked result of every one of them was zero.
C31_ZAccumulates ==
  \A k \in 1..4 :
    (op = "Step" /\ cpu.PC = U32(4352 + 2 * k) /\ ~cpu.halted)
      => (ZSet(cpu.SR) <=> \A j \in 1..k : ADDXResultZero(j))

\* Four additions have each wrapped to zero with a carry: Z is still set.
C31_Witness ==
  /\ op = "Step" /\ cpu.PC = U32(4360) /\ Handler(cpu.ir) = "ADDXmem"
  /\ ZSet(cpu.SR) /\ BitAnd(cpu.SR, flagX) # 0
  /\ \A j \in 1..4 : ADDXResultZero(j)

\* ---- C32
\* The size of the operation opcode ir encodes.
OpSize(ir) ==
  CASE Handler(ir) \in {"MOVE", "MOVEA"} -> moveSizeMap((ir \div 4096) % 4)
    [] Handler(ir) = "MOVEM" -> IF (ir \div 64) % 2 # 0 THEN Long ELSE Word
    [] Handler(ir) \in {"ORI", "ADDXreg", "ADDXmem"} -> sizeEncoding((ir \div 64) % 4)
    [] OTHER -> Long
\* This step is a Step that fetched and executed an instruction of handler
\* set hs and of size Byte or Word.
NarrowStep(hs) ==
  /\ op' = "Step" /\ ~cpu.halted /\ ~cpu.stopped /\ exc' = NoExc
  /\ ExecutedOpcode(cpu', tr', cpu'.ir)
  /\ Handler(cpu'.ir) \in hs /\ OpSize(cpu'.ir) \in {Byte, Word}
\* Data register n keeps its bits above the operand width over this step.
KeepsUpper(n) ==
  /\ cpu'.D[n][1] = cpu.D[n][1]
  /\ OpSize(cpu'.ir) = Byte => cpu'.D[n][2] \div W8 = cpu.D[n][2] \div W8
\* The word MOVEA read: the low word of a register or the last bus read.
MoveaSource ==
  CASE (cpu'.ir \div 8) % 8 = 0 -> cpu.D[cpu'.ir % 8][2]
    [] (cpu'.ir \div 8) % 8 = 1 -> cpu.A[cpu'.ir % 8][2]
    [] OTHER -> tr'[Len(tr')].val[2]
\* The word MOVEM loaded for register i of its list: the bus reads follow
\* the opcode and the mask fetch in list order.
MovemLoaded(i) == tr'[3 + Cardinality({j \in 0..(i - 1) : Listed(tr'[2].val[2], j)})].val[2]
\* MOVEM.W from (An) or (An)+ to registers.
MovemWordLoad ==
  /\ NarrowStep({"MOVEM"}) /\ (cpu'.ir \div 1024) % 2 = 1
  /\ (cpu'.ir \div 8) % 8 \in {2, 3}
\* Every address register written by a word MOVEA or MOVEM holds the word
\* sign-extended to 32 bits.
AddressRegistersFull ==
  /\ NarrowStep({"MOVEA"}) =>
       cpu'.A[(cpu'.ir \div 512) % 8] = SignExt16(MoveaSource)
  /\ MovemWordLoad =>
       \A i \in 8..15 :
         (Listed(tr'[2].val[2], i) /\ ~((cpu'.ir \div 8) % 8 = 3 /\ i = 8 + (cpu'.ir % 8)))
            => cpu'.A[i - 8] = SignExt16(MovemLoaded(i))

\* C32 as stated: every byte or word operation leaves the bits of every Dn
\* above the operand width unchanged, and every write of An stores a full
\* 32-bit value, a word source sign-extended.
C32_UpperBitsAlwaysKept ==
  [][ (NarrowStep({"MOVE", "MOVEA", "MOVEM", "ORI", "ADDXreg", "ADDXmem"})
         => \A n \in 0..7 : KeepsUpper(n))
      /\ AddressRegistersFull ]_vars

\* C32 amended: a byte or word operation that stores through ea.write (MOVE,
\* ORI, ADDX) leaves the bits of every Dn above the operand width unchanged;
\* MOVEM.W from memory replaces all 32 bits of each listed Dn by the word
\* sign-extended; a word MOVEA or MOVEM to An stores the word sign-extended
\* to 32 bits.
C32_WidthOfRegisterWrites ==
  [][ (NarrowStep({"MOVE", "MOVEA", "ORI", "ADDXreg", "ADDXmem"})
         => \A n \in 0..7 : KeepsUpper(n))
      /\ (MovemWordLoad =>
            \A i \in 0..7 : IF Listed(tr'[2].val[2], i)
                              THEN cpu'.D[i] = SignExt16(MovemLoaded(i))
                              ELSE cpu'.D[i] = cpu.D[i])
      /\ AddressRegistersFull ]_vars

\* MOVEM.W (A0)+,D4/A4 loaded a negative word into D4, whose upper half is
\* now 0xFFFF, and a word into A4; MOVE.B, MOVE.W and MOVEA.W ran elsewhere.
C32_Witness ==
  /\ op = "Step" /\ cpu.ir = 19608 /\ cpu.PC = U32(4644)
  /\ cpu.D[4][1] = 65535 /\ cpu.D[4][2] >= 32768
  /\ cpu.A[4] = SignExt16(cpu.A[4][2]) /\ cpu.A[0] = U32(8196)

\* ---- C33
\* The cycle counts README.md and TestInstructionCycles give: TST.L (A0),
\* AND.W (A0),D1, AND.L (A0),D1, NOT.W (A0), BTST D0,(A0), BTST D0,d16(A0).
DocumentedCycles(ir) ==
  CASE ir = 19088 -> 12 [] ir = 49744 -> 8 [] ir = 49808 -> 14
    [] ir = 18000 -> 12 [] ir = 272 -> 8 [] ir = 296 -> 12
    [] OTHER -> 0
\* The last call was a Step that fetched and ran one of those instructions.
TimedStep ==
  /\ op = "Step" /\ exc = NoExc /\ ~cpu.halted
  /\ ExecutedOpcode(cpu, tr, cpu.ir)
  /\ Handler(cpu.ir) \in {"TST", "ANDtoReg", "NOT", "BTSTdyn"}
  /\ (cpu.ir \div 8) % 8 >= 2

\* C33: Step returns the base cost plus the addressing-mode cost of the
\* operand: 12 for TST.L (A0), 8 for AND.W (A0),D1, 14 for AND.L (A0),D1,
\* 12 for NOT.W (A0), 8 for BTST D0,(A0) and 12 for BTST D0,d16(A0).
C33_IncludesOperandCost == TimedStep => ret = DocumentedCycles(cpu.ir)

\* ---- C34
\* C34: a Step of a running CPU that services an interrupt goes on to the
\* first instruction of the handler and returns 44 plus the cycles that
\* instruction took; a Step of a stopped CPU that services an interrupt
\* makes no further bus request, changes nothing after the service and
\* returns 4 + 44.
C34_ServiceThenInstruction ==
  (op = "Step" /\ svc.on) =>
     IF svc.pre.stopped
       THEN ret = 4 + 44 /\ Len(tr) = svc.nreq /\ cpu = svc.post
       ELSE ret = 44 + (cpu.cycles - svc.post.cycles)

\* ---- C35
\* C35: when an interrupt resumes a CPU stopped by the STOP at address P
\* (prevPC while stopped), the return PC in the interrupt frame is P + 4,
\* the address of the instruction after STOP.
C35_FrameAfterStop ==
  (op = "Step" /\ svc.on /\ svc.pre.stopped /\ svc.pre.ir = 20082 /\ svc.wrote /\ ~cpu.halted)
     => svc.framePC = Add32(svc.pre.prevPC, 4)

\* ---- C36
\* This step is a Step that fetched and ran a DBcc.
DBccStep ==
  /\ op' = "Step" /\ ~cpu.halted /\ ~cpu.stopped /\ exc' = NoExc
  /\ Handler(cpu'.ir) = "DBcc" /\ ExecutedOpcode(cpu', tr', cpu'.ir)
\* What C36 says one DBcc at cpu.PC does.
DBccEffect ==
  LET dn == cpu'.ir % 8
      disp == Int16(tr'[2].val[2])
  IN IF testCondition([c |-> cpu], (cpu'.ir \div 256) % 16)
       THEN cpu'.D = cpu.D /\ cpu'.PC = Add32(cpu.PC, 4)
       ELSE /\ cpu'.D = [cpu.D EXCEPT ![dn] = <<@[1], (@[2] + W16 - 1) % W16>>]
            /\ cpu'.PC = IF cpu'.D[dn][2] = W16 - 1
                           THEN Add32(cpu.PC, 4)
                           ELSE Add32(cpu.PC, 2 + disp)
\* The DBF loop at 0x1400, entered with counter word n = D7 and cycles 0:
\* at its head after k branches (10 cycles each), past it after n branches
\* and the fall-through (14 cycles).
AtLoopHead == cpu.PC = U32(5120) /\ op \in {"SetState", "Step"} /\ ~cpu.halted
PastLoop == cpu.PC = U32(5124) /\ op = "Step" /\ cpu.ir = 20936
BranchesTaken == cpu.D[7][2] - cpu.D[0][2]

\* C36: a DBcc whose condition is true changes no Dn and falls through; one
\* whose condition is false decrements the low word of Dn only and branches
\* to DBcc + 2 + disp unless the word became 0xFFFF, when it falls through.
\* So the DBF loop entered with counter word n has taken k branches when n - k
\* is left in the counter, leaves after exactly n branches, and does leave.
C36_CountedLoop ==
  /\ [][DBccStep => DBccEffect]_vars
  /\ [](AtLoopHead => BranchesTaken >= 0 /\ cpu.cycles = 10 * BranchesTaken)
  /\ [](PastLoop => cpu.D[0][2] = W16 - 1 /\ cpu.cycles = 10 * cpu.D[7][2] + 14)
  /\ ((AtLoopHead /\ cpu.D[7][2] <= MaxCount) ~> PastLoop)

\* The DBF loop entered with counter word 3 and bits above it in D0 has
\* fallen through after three branches.
C36_Witness ==
  /\ PastLoop /\ cpu.D[7][2] = MaxCount /\ cpu.D[0] = <<4660, W16 - 1>>
  /\ cpu.cycles = 10 * MaxCount + 14

\* ---- C37
\* C37: started from Cycles() = 0 and Deficit() = 0 and driven by StepCycles
\* (budget >= 0) and RequestInterrupt only, the values StepCycles returned
\* plus Deficit() add up to Cycles() after every call. The sum holds after
\* every call exactly when each call keeps it: a StepCycles adds to Cycles()
\* what it returns plus the change of Deficit(), a RequestInterrupt changes
\* neither. Deficit() is never negative and each return is in 0..budget.
C37_CyclesConserved ==
  [][ ((op' = "StepCycles" /\ arg' >= 0) =>
          (/\ ret' + cpu'.deficit - cpu.deficit = cpu'.cycles - cpu.cycles
           /\ cpu'.deficit >= 0
           /\ ret' \in 0..arg'))
      /\ (op' = "RequestInterrupt" =>
            (cpu'.cycles = cpu.cycles /\ cpu'.deficit = cpu.deficit)) ]_vars

\* ---- C38
IntMask(sr) == (sr \div W8) % 8
\* What C38 says a Step does with the latched level at mask L.
NestedPriority ==
  IF cpu.pendingIPL <= IntMask(cpu.SR)
    THEN ~svc'.on /\ cpu'.pendingIPL = cpu.pendingIPL /\ cpu'.pendingVec = cpu.pendingVec
    ELSE svc'.on /\ svc'.pre = cpu

\* C38 as stated: with the mask at the level L in 1..6 of the interrupt
\* serviced, a latched interrupt of level <= L is not serviced by a Step and
\* stays latched, and one of a higher level is serviced at the top of the
\* next Step, before any instruction.
C38_NestedPriorityAlways ==
  [][(op' = "Step" /\ IntMask(cpu.SR) \in 1..6 /\ cpu.pendingIPL > 0)
       => NestedPriority]_vars

\* C38 amended: the same on a CPU that is not halted; a halted CPU services
\* nothing and keeps the latch, whatever the level.
C38_NestedPriorityRunning ==
  [][(op' = "Step" /\ IntMask(cpu.SR) \in 1..6 /\ cpu.pendingIPL > 0)
       => IF cpu.halted
            THEN ~svc'.on /\ cpu' = cpu /\ ret' = 0
            ELSE NestedPriority]_vars

\* A level 4 interrupt was serviced by the Step that followed the first
\* instruction of the level 3 handler.
C38_Witness ==
  /\ op = "Step" /\ svc.on /\ svc.pre.pendingIPL = 4
  /\ IntMask(svc.pre.SR) = 3 /\ svc.pre.PC = U32(12546) /\ svc.framePC = U32(12546)
  /\ IntMask(cpu.SR) = 4 /\ ~cpu.halted

\* ---- C39
\* This step is a Step that fetched and ran an RTE in supervisor mode.
RanRTE ==
  /\ op' = "Step" /\ exc' = NoExc /\ ~cpu'.halted
  /\ ExecutedOpcode(cpu', tr', 20083)
\* CPU c was entered into a handler at a non-zero even address with an even
\* supervisor stack pointer before.
CleanEntry(pre, post) ==
  ~IsOdd(SupervisorSP(pre)) /\ ~IsOdd(post.PC) /\ post.PC # Zero32
\* The RTE of this step undid the entry from CPU pre with return address pc.
Returned(pre, pc) ==
  /\ cpu'.PC = pc
  /\ cpu'.SR = pre.SR
  /\ cpu'.A[7] = pre.A[7]
  /\ ~SBit(pre.SR) => cpu'.SSP = pre.SSP

\* C39: an interrupt serviced by a running Step whose handler starts with
\* RTE (run by the same Step), and a TRAP #n followed by the Step that runs
\* the RTE its handler starts with, leave PC at the return address of the
\* frame, SR and A[7] as they were before the exception and, when the return
\* is to user mode, SSP as it was.
C39_RoundTrip ==
  [][ ((RanRTE /\ svc'.on /\ CleanEntry(svc'.pre, svc'.post))
         => Returned(svc'.pre, svc'.framePC))
      /\ ((op = "Step" /\ exc.on /\ exc.vector \in 32..47 /\ ~cpu.halted
           /\ CleanEntry(exc.pre, exc.post) /\ cpu.PC = exc.post.PC
           /\ RanRTE /\ ~svc'.on)
         => Returned(exc.pre, exc.framePC)) ]_vars

====
